---- MODULE Spec2Model ----
(***************************************************************************)
(* The searcher's concurrent driver (concurrentFind) and the parts of the  *)
(* matcher program it calls (readerGrep.matchString, readerGrep.FindZip),  *)
(* the line scanner (readerGrep.Find, under SpecFind) and the compilation  *)
(* of a pattern (compile, lowerRegexpASCII, longestLiteral, under          *)
(* SpecCompile), longestLiteral on general expressions (SpecLiteral),      *)
(* readAll (SpecReadAll), and the worker pool with its mutexes, scratch    *)
(* buffers and preview strings (SpecPool), the same pool under fair        *)
(* scheduling (SpecPoolFair), the scanner on empty and line-end patterns   *)
(* (SpecFindAny) and one matcher over several files (SpecReuse).           *)
(* The source is src/ui/web_modules/sourcegraph/blob/BlobLine.tsx, which   *)
(* holds the Go code of the search package.  The global Tooltip of         *)
(* src/web/src/site-admin/SiteAdminInviteUserPage.tsx is SpecTooltip.      *)
(***************************************************************************)
EXTENDS Integers, Sequences, FiniteSets, TLC

\* ------------------------------------------------------------- constants

\* maxFileMatches is the limit on number of matching files we return.
maxFileMatches == 1000

\* numWorkers is how many concurrent readerGreps run per request. The source
\* sets 8; the pool is checked at this size.
numWorkers == 2

\* The longest archive (zf.Files) a run is started on.
MaxFiles == 2

\* The fileMatchLimit arguments a run is started with: 0 stands for "no limit
\* given" and is clamped to maxFileMatches, as are a negative limit and a
\* limit above maxFileMatches.
FileMatchLimits == {-1, 0, 1, 2, maxFileMatches + 1}

Workers == 1 .. numWorkers

\* ---------------------------------------------------------------- values

\* error values: nil, context.DeadlineExceeded, context.Canceled, and the error
\* FindZip returned for archive entry `file`.
nil == [kind |-> "nil", file |-> 0]

DeadlineExceeded == [kind |-> "DeadlineExceeded", file |-> 0]

Canceled == [kind |-> "Canceled", file |-> 0]

FindError(i) == [kind |-> "Find", file |-> i]

\* The PatternInfo of a run whose matcher is taken as compiled already.
NoPattern == [expr |-> << >>, IsCaseSensitive |-> TRUE]

\* An archive entry (store.SrcFile with its bytes), reduced to what the driver
\* can observe of it:
\*   matchPath    rg.matchPath.MatchPath(f.Name)
\*   lineMatches  Find returns at least one LineMatch for the file's bytes
\*   reName       rg.re.MatchString of the (case-adjusted) name, for rg.re # nil
\*   findErr      FindZip returns a non-nil error for the file
SrcFiles ==
    { f \in [matchPath : BOOLEAN, lineMatches : BOOLEAN, reName : BOOLEAN, findErr : BOOLEAN] :
        /\ ~f.matchPath => (f.lineMatches /\ f.reName /\ ~f.findErr)
        /\ f.findErr => (~f.lineMatches /\ ~f.reName)
        /\ (f.matchPath /\ f.lineMatches) => ~f.reName }

\* Find returns a nil error on every path (lines 487, 491, 587).
SrcFilesNoErr == { f \in SrcFiles : ~f.findErr }

Archives(kinds) == UNION { [1 .. n -> kinds] : n \in 0 .. MaxFiles }

\* ----------------------------------------------------------------- state

VARIABLES
    p,                      \* the protocol.PatternInfo given to compile
    zf,                     \* zf.Files: the archive, a sequence of SrcFiles
    rg,                     \* the caller's readerGrep: [re |-> rg.re # nil]
    pc,                     \* "start", "running", "returned", "panicked"
    fileMatchLimit,         \* the parameter: as given, then clamped (line 626)
    patternMatchesContent,  \* the parameter: as given, then defaulted (line 622)
    patternMatchesPaths,    \* the parameter
    ctx,                    \* what ended the derived context first: "none" while it is not
                            \* done, else "deadline", "caller", "limit", "error", "deferred"
    files,                  \* the queue: indices into zf still to hand out
    matches,                \* the result list
    limitHit,
    wgErr,                  \* the latched error
    wgErrOnce,              \* TRUE once wgErrOnce.Do has run
    filesSkipped,
    filesSearched,
    err,                    \* the returned error
    wpc,                    \* per worker: "idle", "poll", "pop", "process", "latch", "append", "exited"
    wfile,                  \* per worker: the index of f, 0 when none
    wfm,                    \* per worker: fm and err of rg.FindZip(zf, f)
    scans,                  \* per archive entry: how often Find was invoked on it
    late,                   \* per worker: files popped after the context was done
    transformBuf,           \* per readerGrep (0 the caller's, w the clone of worker w):
                            \* its scratch buffer, << >> while it is nil
    wrg,                    \* per worker: the readerGrep it runs on
    filesmu,                \* the worker that holds filesmu, 0 when it is free
    matchesmu,              \* the worker that holds matchesmu, 0 when it is free
    closed,                 \* TRUE once the archive was closed
    reader,                 \* readAll's r: the stream and how far it was read
    dest,                   \* readAll's b: the backing array and the offset b starts at
    count,                  \* readAll's n
    state,                  \* Tooltip's this.state
    document,               \* the DOM the Tooltip listens on
    event                   \* the last event handleEvent was called with

vars == << p, zf, rg, pc, fileMatchLimit, patternMatchesContent, patternMatchesPaths,
           ctx, files, matches, limitHit, wgErr, wgErrOnce,
           filesSkipped, filesSearched, err, wpc, wfile, wfm, scans, late,
           transformBuf, wrg, filesmu, matchesmu, closed, reader, dest, count,
           state, document, event >>

\* The memory of the matcher programs and of the archive, which the driver's
\* actions below leave out: they take Find by its result alone.
heap == << transformBuf, wrg, filesmu, matchesmu, closed >>

\* The state of a readAll call.
stream == << reader, dest, count >>

\* The Tooltip component and its page.
ui == << state, document, event >>

ctl == << p, zf, rg, patternMatchesPaths, heap, stream, ui >>

\* The readerGrep a worker holds before one was made for it.
NoClone == [obj |-> 0, re |-> 0, matchPath |-> 0, literalSubstring |-> 0]

\* No matcher has a scratch buffer, no lock is held, the archive is open.
NoHeap ==
    /\ transformBuf = [o \in 0 .. numWorkers |-> << >>]
    /\ wrg = [w \in Workers |-> NoClone]
    /\ filesmu = 0
    /\ matchesmu = 0
    /\ closed = FALSE

\* No readAll call runs.
NoStream ==
    /\ reader = [data |-> << >>, pos |-> 0, end |-> "EOF"]
    /\ dest = [bytes |-> << >>, off |-> 0]
    /\ count = 0

\* undefined and null of the Tooltip's TypeScript.
undefined == "undefined"

null == "null"

\* No Tooltip is mounted.
NoUi ==
    /\ state = [subject |-> undefined, subjectSeq |-> 0, lastEventTarget |-> undefined,
                content |-> undefined]
    /\ document = [tooltip |-> << >>, attached |-> FALSE, buttonType |-> "submit"]
    /\ event = [n |-> 0]

\* ------------------------------------------------------- matcher program

\* rg.matchPath.MatchPath(f.Name)
MatchPath(i) == zf[i].matchPath

\* matchString without the regexp: every name matches.
matchStringAlways(i) == TRUE

\* readerGrep.matchString: a nil regexp matches every name.
matchString(i) ==
    IF ~rg.re THEN TRUE ELSE zf[i].reName

\* protocol.FileMatch{Path: f.Name}: LineMatches is empty.
PathMatch(i) == [Path |-> i, LineMatches |-> FALSE]

NoFileMatch == [fm |-> PathMatch(0), err |-> nil, panic |-> FALSE]

\* readerGrep.FindZip, with Find reduced to whether it yields line matches.
\* bytes.Contains(fileMatchBuf, nil) holds, so with rg.re = nil line 489 calls
\* FindIndex on a nil *regexp.Regexp: a nil pointer dereference.
FindZip(i) ==
    IF ~rg.re
    THEN [fm |-> PathMatch(i), err |-> nil, panic |-> TRUE]
    ELSE IF zf[i].findErr
    THEN [fm |-> PathMatch(i), err |-> FindError(i), panic |-> FALSE]
    ELSE [fm |-> [Path |-> i, LineMatches |-> zf[i].lineMatches], err |-> nil, panic |-> FALSE]

\* ------------------------------------------------------------ the driver

\* Lines 621-623.
DefaultContent(content, paths) ==
    IF ~content /\ ~paths THEN TRUE ELSE content

\* Lines 625-627 without the test for a limit of zero or less.
ClampLimitAboveOnly(limit) ==
    IF limit > maxFileMatches THEN maxFileMatches ELSE limit

\* Lines 625-627.
ClampLimit(limit) ==
    IF limit > maxFileMatches \/ limit <= 0 THEN maxFileMatches ELSE limit

\* Line 648 without the nil-regexp case.
IsFastPathContentOff(content, paths) == paths /\ ~content

\* Line 648.
IsFastPath(content, paths) == paths /\ (~content \/ ~rg.re)

\* ctx.Err(): DeadlineExceeded when the deadline ended the context, Canceled
\* when a cancel did, nil while it is not done.
CtxErr(c) ==
    IF c = "none" THEN nil
    ELSE IF c = "deadline" THEN DeadlineExceeded
    ELSE Canceled

\* cancel(), called for the reason `why`: the first end of the context stays.
Cancel(c, why) == IF c = "none" THEN why ELSE c

\* Lines 651-660 when a match is put in front of the list.
RECURSIVE PathScanNewestFirst(_, _, _)
PathScanNewestFirst(i, acc, limit) ==
    IF i > Len(zf)
    THEN [matches |-> acc, limitHit |-> FALSE]
    ELSE IF MatchPath(i) /\ matchString(i)
    THEN IF Len(acc) < limit
         THEN PathScanNewestFirst(i + 1, << PathMatch(i) >> \o acc, limit)
         ELSE [matches |-> acc, limitHit |-> TRUE]
    ELSE PathScanNewestFirst(i + 1, acc, limit)

\* Lines 651-660, from entry i on, with the list built so far.
RECURSIVE PathScan(_, _, _)
PathScan(i, acc, limit) ==
    IF i > Len(zf)
    THEN [matches |-> acc, limitHit |-> FALSE]
    ELSE IF MatchPath(i) /\ matchString(i)
    THEN IF Len(acc) < limit
         THEN PathScan(i + 1, Append(acc, PathMatch(i)), limit)
         ELSE [matches |-> acc, limitHit |-> TRUE]
    ELSE PathScan(i + 1, acc, limit)

InitWith(kinds) ==
    /\ p = NoPattern
    /\ zf \in Archives(kinds)
    /\ rg \in [re : BOOLEAN]
    /\ fileMatchLimit \in FileMatchLimits
    /\ patternMatchesContent \in BOOLEAN
    /\ patternMatchesPaths \in BOOLEAN
    /\ pc = "start"
    /\ ctx = "none"
    /\ files = [i \in 1 .. Len(zf) |-> i]
    /\ matches = <<>>
    /\ limitHit = FALSE
    /\ wgErr = nil
    /\ wgErrOnce = FALSE
    /\ filesSkipped = 0
    /\ filesSearched = 0
    /\ err = nil
    /\ wpc = [w \in Workers |-> "idle"]
    /\ wfile = [w \in Workers |-> 0]
    /\ wfm = [w \in Workers |-> NoFileMatch]
    /\ scans = [i \in 1 .. Len(zf) |-> 0]
    /\ late = [w \in Workers |-> 0]
    /\ NoHeap
    /\ NoStream
    /\ NoUi

Init == InitWith(SrcFilesNoErr)

\* Lines 631-635: the context was given a deadline, and the timer of
\* context.WithTimeout (or the parent's own deadline) fires.
DeadlineFires ==
    /\ pc \in {"start", "running"}
    /\ ctx = "none"
    /\ ctx' = "deadline"
    /\ UNCHANGED << ctl, pc, fileMatchLimit, patternMatchesContent, files,
                    matches, limitHit, wgErr, wgErrOnce, filesSkipped, filesSearched,
                    err, wpc, wfile, wfm, scans, late >>

\* Lines 636-637: the caller cancels the context concurrentFind was given.
OuterCancel ==
    /\ pc \in {"start", "running"}
    /\ ctx = "none"
    /\ ctx' = "caller"
    /\ UNCHANGED << ctl, pc, fileMatchLimit, patternMatchesContent, files,
                    matches, limitHit, wgErr, wgErrOnce, filesSkipped, filesSearched,
                    err, wpc, wfile, wfm, scans, late >>

\* Lines 621-662 when the branch of line 648 is taken: the whole call.
FastPath ==
    /\ pc = "start"
    /\ IsFastPath(DefaultContent(patternMatchesContent, patternMatchesPaths),
                  patternMatchesPaths)
    /\ LET res == PathScan(1, <<>>, ClampLimit(fileMatchLimit))
       IN  /\ matches' = res.matches
           /\ limitHit' = res.limitHit
    /\ patternMatchesContent' = DefaultContent(patternMatchesContent, patternMatchesPaths)
    /\ fileMatchLimit' = ClampLimit(fileMatchLimit)
    /\ err' = nil
    /\ ctx' = Cancel(ctx, "deferred")
    /\ pc' = "returned"
    /\ UNCHANGED << ctl, files, wgErr, wgErrOnce, filesSkipped, filesSearched,
                    wpc, wfile, wfm, scans, late >>

\* Lines 621-734 when the branch of line 648 is not taken: the workers start.
StartWorkers ==
    /\ pc = "start"
    /\ ~IsFastPath(DefaultContent(patternMatchesContent, patternMatchesPaths),
                   patternMatchesPaths)
    /\ patternMatchesContent' = DefaultContent(patternMatchesContent, patternMatchesPaths)
    /\ fileMatchLimit' = ClampLimit(fileMatchLimit)
    /\ wpc' = [w \in Workers |-> "poll"]
    /\ pc' = "running"
    /\ UNCHANGED << ctl, ctx, files, matches, limitHit, wgErr, wgErrOnce,
                    filesSkipped, filesSearched, err, wfile, wfm, scans, late >>

\* Lines 680-685 when the done channel is never looked at.
CtxNeverDone(c) == FALSE

\* Lines 680-685: check whether we've been cancelled.
CtxDone(c) == c # "none"

Poll(w) ==
    /\ pc = "running"
    /\ wpc[w] = "poll"
    /\ wpc' = [wpc EXCEPT ![w] = IF CtxDone(ctx) THEN "exited" ELSE "pop"]
    /\ UNCHANGED << ctl, pc, fileMatchLimit, patternMatchesContent, ctx,
                    files, matches, limitHit, wgErr, wgErrOnce, filesSkipped,
                    filesSearched, err, wfile, wfm, scans, late >>

\* Lines 687-695: grab a file to work on, under filesmu.
Pop(w) ==
    /\ pc = "running"
    /\ wpc[w] = "pop"
    /\ IF Len(files) = 0
       THEN /\ wpc' = [wpc EXCEPT ![w] = "exited"]
            /\ UNCHANGED << files, wfile, late >>
       ELSE /\ wfile' = [wfile EXCEPT ![w] = Head(files)]
            /\ files' = Tail(files)
            /\ wpc' = [wpc EXCEPT ![w] = "process"]
            /\ late' = [late EXCEPT ![w] = IF ctx # "none" THEN @ + 1 ELSE @]
    /\ UNCHANGED << ctl, pc, fileMatchLimit, patternMatchesContent, ctx,
                    matches, limitHit, wgErr, wgErrOnce, filesSkipped, filesSearched,
                    err, wfm, scans >>

\* Line 698 without the path check.
RejectsNothing(i) == FALSE

\* Line 698.
Rejects(i) == ~MatchPath(i)

\* Lines 698-702 when a skipped file is counted as searched too.
TallyBoth(rejected, skipped, searched) ==
    IF rejected THEN << skipped + 1, searched + 1 >> ELSE << skipped, searched + 1 >>

\* Lines 698-702: the two counters << filesSkipped, filesSearched >> after the
\* decision is recorded.
Tally(rejected, skipped, searched) ==
    IF rejected THEN << skipped + 1, searched >> ELSE << skipped, searched + 1 >>

\* Lines 714-721 without the match against the file path.
IsMatchContentOnly(fm, i) == fm.LineMatches

\* Lines 714-721: whether the file counts as a match.
IsMatch(fm, i) ==
    fm.LineMatches \/ (patternMatchesPaths /\ matchString(i))

\* Lines 697-721: decide whether to process, record that decision, process.
\* Nothing here is shared but the two counters, which are only added to. A
\* panic in a goroutine ends the process.
Process(w) ==
    /\ pc = "running"
    /\ wpc[w] = "process"
    /\ LET i == wfile[w]
           res == FindZip(i)
           rejected == Rejects(i)
       IN  /\ filesSkipped' = Tally(rejected, filesSkipped, filesSearched)[1]
           /\ filesSearched' = Tally(rejected, filesSkipped, filesSearched)[2]
           /\ IF rejected
              THEN /\ wpc' = [wpc EXCEPT ![w] = "poll"]
                   /\ wfile' = [wfile EXCEPT ![w] = 0]
                   /\ UNCHANGED << pc, wfm, scans >>
              ELSE /\ scans' = [scans EXCEPT ![i] = @ + 1]
                   /\ wfm' = [wfm EXCEPT ![w] = res]
                   /\ IF res.panic
                      THEN /\ pc' = "panicked"
                           /\ UNCHANGED << wpc, wfile >>
                      ELSE IF res.err # nil
                      THEN /\ wpc' = [wpc EXCEPT ![w] = "latch"]
                           /\ UNCHANGED << pc, wfile >>
                      ELSE IF IsMatch(res.fm, i)
                      THEN /\ wpc' = [wpc EXCEPT ![w] = "append"]
                           /\ UNCHANGED << pc, wfile >>
                      ELSE /\ wpc' = [wpc EXCEPT ![w] = "poll"]
                           /\ wfile' = [wfile EXCEPT ![w] = 0]
                           /\ UNCHANGED pc
    /\ UNCHANGED << ctl, fileMatchLimit, patternMatchesContent, ctx,
                    files, matches, limitHit, wgErr, wgErrOnce, err, late >>

\* Lines 708-712 without the sync.Once: the last error stays.
LatchedLast(once, old, new) == new

\* Lines 708-712: wgErrOnce.Do runs its function for the first caller only.
Latched(once, old, new) == IF once THEN old ELSE new

Latch(w) ==
    /\ pc = "running"
    /\ wpc[w] = "latch"
    /\ wgErr' = Latched(wgErrOnce, wgErr, wfm[w].err)
    /\ ctx' = IF wgErrOnce THEN ctx ELSE Cancel(ctx, "error")
    /\ wgErrOnce' = TRUE
    /\ wpc' = [wpc EXCEPT ![w] = "exited"]
    /\ UNCHANGED << ctl, pc, fileMatchLimit, patternMatchesContent, files,
                    matches, limitHit, filesSkipped, filesSearched, err, wfile, wfm,
                    scans, late >>

\* Line 724 with <= for <.
BelowLimitOffByOne(n, limit) == n <= limit

\* Line 724.
BelowLimit(n, limit) == n < limit

\* Lines 722-731: under matchesmu.
AppendMatch(w) ==
    /\ pc = "running"
    /\ wpc[w] = "append"
    /\ IF BelowLimit(Len(matches), fileMatchLimit)
       THEN /\ matches' = Append(matches, wfm[w].fm)
            /\ UNCHANGED << limitHit, ctx >>
       ELSE /\ limitHit' = TRUE
            /\ ctx' = Cancel(ctx, "limit")
            /\ UNCHANGED matches
    /\ wpc' = [wpc EXCEPT ![w] = "poll"]
    /\ wfile' = [wfile EXCEPT ![w] = 0]
    /\ UNCHANGED << ctl, pc, fileMatchLimit, patternMatchesContent, files,
                    wgErr, wgErrOnce, filesSkipped, filesSearched, err, wfm, scans, late >>

\* Lines 738-742 when every ctx.Err() is returned, not only DeadlineExceeded.
ReturnedErrorAnyCtx(latched, e) ==
    IF latched # nil THEN latched ELSE e

\* Lines 738-742 when only the latched error is returned.
ReturnedErrorLatchedOnly(latched, e) == latched

\* Lines 738-742.
ReturnedError(latched, e) ==
    IF latched # nil THEN latched
    ELSE IF e = DeadlineExceeded THEN e
    ELSE nil

\* Lines 736-750: wg.Wait returns, the error is chosen, the deferred cancel runs.
Return ==
    /\ pc = "running"
    /\ \A w \in Workers : wpc[w] = "exited"
    /\ err' = ReturnedError(wgErr, CtxErr(ctx))
    /\ ctx' = Cancel(ctx, "deferred")
    /\ pc' = "returned"
    /\ UNCHANGED << ctl, fileMatchLimit, patternMatchesContent, files, matches,
                    limitHit, wgErr, wgErrOnce, filesSkipped, filesSearched, wpc,
                    wfile, wfm, scans, late >>

Next ==
    \/ DeadlineFires
    \/ OuterCancel
    \/ FastPath
    \/ StartWorkers
    \/ \E w \in Workers : Poll(w)
    \/ \E w \in Workers : Pop(w)
    \/ \E w \in Workers : Process(w)
    \/ \E w \in Workers : AppendMatch(w)
    \/ Return

Spec == Init /\ [][Next]_vars

\* The driver with FindZip's error result taken as an input: the same program,
\* started on archives that hold entries for which FindZip returns an error.
\* The accepted entries here are matched by their content only.
SrcFilesScanErr == { f \in SrcFiles : f.matchPath => ~f.reName }

InitScanErr == InitWith(SrcFilesScanErr)

NextScanErr ==
    \/ Next
    \/ \E w \in Workers : Latch(w)

SpecScanErr == InitScanErr /\ [][NextScanErr]_vars

\* ------------------------------------------------------------ properties

\* The archive entries of the result list.
Reported == { matches[k].Path : k \in 1 .. Len(matches) }

\* The limit in force for a fileMatchLimit argument.
EffectiveLimit(limit) ==
    IF limit >= 1 /\ limit <= maxFileMatches THEN limit ELSE maxFileMatches

\* The call went through the worker pool / through the path-only fast path.
ReturnedFromPool == pc = "returned" /\ \A w \in Workers : wpc[w] = "exited"

ReturnedFromFastPath == pc = "returned" /\ \A w \in Workers : wpc[w] = "idle"

\* The regex-on-path check of the name of entry i: an absent regex matches
\* every name.
NameOK(i) == ~rg.re \/ zf[i].reName

\* Entry i is a match for the worker pool: its path is accepted and it has a
\* line match or, when paths are matched, its name matches.
PoolMatch(i) ==
    zf[i].matchPath /\ (zf[i].lineMatches \/ (patternMatchesPaths /\ NameOK(i)))

\* Entry i is a match for the fast path.
PathOnlyMatch(i) == zf[i].matchPath /\ NameOK(i)

\* C1: in both branches the result list never holds more than the effective
\* fileMatchLimit entries, and whenever limitHit is set the list holds exactly
\* that many.
C1_LimitBoundsResults ==
    /\ Len(matches) <= EffectiveLimit(fileMatchLimit)
    /\ limitHit => Len(matches) = EffectiveLimit(fileMatchLimit)

C1_Witness ==
    /\ ReturnedFromPool
    /\ limitHit
    /\ Len(matches) = 1
    /\ fileMatchLimit = 1

\* C2: when more files match than the effective limit, and no deadline fired,
\* the caller did not cancel and no scanner error was latched, the call returns
\* exactly fileMatchLimit FileMatches with limitHit set, whatever the schedule.
C2_OverLimitReturnsLimit ==
    (/\ pc = "returned"
     /\ ctx \notin {"deadline", "caller"}
     /\ wgErr = nil
     /\ Cardinality({ i \in 1 .. Len(zf) :
            IF ReturnedFromFastPath THEN PathOnlyMatch(i) ELSE PoolMatch(i) })
          > EffectiveLimit(fileMatchLimit))
    => (Len(matches) = EffectiveLimit(fileMatchLimit) /\ limitHit)

C2_Witness ==
    /\ ReturnedFromPool
    /\ ctx = "limit"
    /\ Len(zf) = 2
    /\ \A i \in 1 .. Len(zf) : PoolMatch(i)
    /\ Len(matches) = 1
    /\ limitHit

\* C3: with an empty pattern (no regex) the call reports every archive file
\* whose path the path matcher accepts, up to the file-match limit, for every
\* combination of patternMatchesContent and patternMatchesPaths. Stated of a
\* call that has ended and that neither a deadline nor the caller cut short.
C3_EmptyPatternReportsAccepted ==
    (/\ ~rg.re
     /\ pc \in {"returned", "panicked"}
     /\ ctx \notin {"deadline", "caller"})
    => \A i \in 1 .. Len(zf) :
          zf[i].matchPath =>
              (i \in Reported \/ Len(matches) = EffectiveLimit(fileMatchLimit))

\* C4: in a run of the worker pool that nothing cut short (no limit, deadline,
\* cancellation or error), an accepted file is in the result iff the scanner
\* gave a line match for it or paths are matched and the regex matches its
\* name; without patternMatchesPaths, iff it has a line match.
C4_PoolReportsExactlyMatches ==
    (ReturnedFromPool /\ ctx = "deferred" /\ wgErr = nil /\ ~limitHit)
    => \A i \in 1 .. Len(zf) :
          zf[i].matchPath =>
              /\ i \in Reported <=>
                    (zf[i].lineMatches \/ (patternMatchesPaths /\ NameOK(i)))
              /\ ~patternMatchesPaths => (i \in Reported <=> zf[i].lineMatches)

C4_Witness ==
    /\ ReturnedFromPool
    /\ ctx = "deferred"
    /\ patternMatchesPaths
    /\ Len(zf) = 2
    /\ \E i, j \in 1 .. Len(zf) :
          /\ zf[i].matchPath /\ ~zf[i].lineMatches /\ zf[i].reName /\ i \in Reported
          /\ zf[j].matchPath /\ ~zf[j].lineMatches /\ ~zf[j].reName /\ j \notin Reported

\* C5: on return from the worker pool, a latched scanner error is the error
\* returned, also when the deadline fired; with no latched error the error is
\* DeadlineExceeded when the deadline ended the context, and with it the
\* results appended so far; and it is nil when only the file-match limit
\* cancelled the context.
C5_ReturnedErrorOrder ==
    ReturnedFromPool =>
        /\ wgErr # nil => err = wgErr
        /\ (wgErr = nil /\ ctx = "deadline") => err = DeadlineExceeded
        /\ (wgErr = nil /\ ctx = "limit") => err = nil
        /\ (wgErr = nil /\ ctx # "deadline") => err = nil

C5_Witness ==
    /\ ReturnedFromPool
    /\ ctx = "deadline"
    /\ wgErr = nil
    /\ err = DeadlineExceeded
    /\ Len(matches) = 1
    /\ Len(files) = 1

\* C6: of the errors the workers get from the scanner exactly one is latched,
\* the first to reach the latch; a later one never replaces it; latching
\* cancels the context; and the call returns the latched error as it is.
C6_FirstErrorLatched ==
    /\ [](wgErrOnce <=> wgErr # nil)
    /\ [](wgErr # nil => (wgErr.kind = "Find" /\ ctx # "none"))
    /\ [](pc = "returned" /\ wgErr # nil => err = wgErr)
    /\ [][wgErr # nil => wgErr' = wgErr]_vars
    /\ [][\A w \in Workers :
            (wpc[w] = "latch" /\ wpc'[w] # "latch" /\ wgErr = nil)
                => wgErr' = wfm[w].err]_vars

C6_Witness ==
    /\ pc = "returned"
    /\ wgErr # nil
    /\ err = wgErr
    /\ \E w \in Workers : wfm[w].err # nil /\ wfm[w].err # wgErr /\ wpc[w] = "exited"

\* C7: once the context is done a worker at the top of its loop exits without
\* taking a file, so after the context is done each worker takes at most one
\* more file from the queue.
C7_CooperativeCancel ==
    /\ [](\A w \in Workers : late[w] <= 1)
    /\ [][\A w \in Workers :
            (wpc[w] = "poll" /\ ctx # "none" /\ wpc'[w] # "poll")
                => (wpc'[w] = "exited" /\ files' = files)]_vars

C7_Witness ==
    /\ ReturnedFromPool
    /\ \E w \in Workers : late[w] = 1
    /\ Len(files) = 1

\* C8: filesSearched + filesSkipped counts each file taken from the queue once,
\* as soon as the worker has decided on it, so it never exceeds the number of
\* archive files; when the pool returns from a run that nothing cut short the
\* sum is the number of archive files.
C8_CountersCoverArchive ==
    /\ filesSearched + filesSkipped <= Len(zf)
    /\ pc # "panicked" =>
          filesSearched + filesSkipped
            = Len(zf) - Len(files) - Cardinality({ w \in Workers : wpc[w] = "process" })
    /\ (ReturnedFromPool /\ ctx = "deferred" /\ wgErr = nil)
         => filesSearched + filesSkipped = Len(zf)

C8_Witness ==
    /\ ReturnedFromPool
    /\ ctx = "deferred"
    /\ Len(zf) = 2
    /\ filesSearched = 1
    /\ filesSkipped = 1

\* C9: a file whose name the path matcher rejects is never passed to the File
\* Scanner and is never in the result list, in the worker pool and on the fast
\* path alike.
C9_RejectedNeverScanned ==
    \A i \in 1 .. Len(zf) :
        ~zf[i].matchPath => (scans[i] = 0 /\ i \notin Reported)

C9_Witness ==
    /\ ReturnedFromPool
    /\ filesSkipped = 1
    /\ Len(matches) = 1
    /\ \E i \in 1 .. Len(zf) : ~zf[i].matchPath /\ scans[i] = 0

\* C10: the fast path is taken exactly when patternMatchesPaths is set and
\* patternMatchesContent is not set or the regex is absent. On it no worker
\* starts and the scanner is never invoked, every FileMatch has no line
\* matches, a file is returned iff it passes the path matcher and the
\* regex-on-path check and fewer than fileMatchLimit such files precede it, and
\* limitHit is set only when a further such file was met with the list full.
C10_FastPath ==
    /\ [][(pc = "start" /\ pc' # "start")
            => ((pc' = "returned")
                  <=> (patternMatchesPaths /\ (~patternMatchesContent \/ ~rg.re)))]_vars
    /\ [](ReturnedFromFastPath =>
            /\ \A i \in 1 .. Len(zf) : scans[i] = 0
            /\ filesSearched = 0
            /\ \A k \in 1 .. Len(matches) : ~matches[k].LineMatches
            /\ \A i \in 1 .. Len(zf) :
                  i \in Reported <=>
                      /\ PathOnlyMatch(i)
                      /\ Cardinality({ j \in 1 .. i - 1 : PathOnlyMatch(j) })
                            < EffectiveLimit(fileMatchLimit)
            /\ limitHit <=>
                  Cardinality({ i \in 1 .. Len(zf) : PathOnlyMatch(i) })
                      > EffectiveLimit(fileMatchLimit))

C10_Witness ==
    /\ ReturnedFromFastPath
    /\ rg.re
    /\ limitHit
    /\ Len(matches) = 1
    /\ Len(zf) = 2

\* C27: the call uses the limit L = fileMatchLimit when 1 <= fileMatchLimit <=
\* maxFileMatches and L = maxFileMatches when the given fileMatchLimit is zero,
\* negative or above maxFileMatches; the result list never holds more than L,
\* so never more than maxFileMatches, FileMatches.
C27_ClampedLimit ==
    /\ [][(pc = "start" /\ pc' # "start") =>
            fileMatchLimit' = IF 1 <= fileMatchLimit /\ fileMatchLimit <= maxFileMatches
                              THEN fileMatchLimit
                              ELSE maxFileMatches]_vars
    /\ [](pc # "start" => (1 <= fileMatchLimit /\ fileMatchLimit <= maxFileMatches))
    /\ [](pc # "start" => Len(matches) <= fileMatchLimit)
    /\ [](Len(matches) <= maxFileMatches)

\* A call that was given no usable limit returned every file of the archive.
C27_Witness ==
    /\ pc = "returned"
    /\ fileMatchLimit = maxFileMatches
    /\ Len(zf) = 2
    /\ Len(matches) = 2

\* Entry i is a match for the branch the call went through.
IsAMatch(i) == IF ReturnedFromFastPath THEN PathOnlyMatch(i) ELSE PoolMatch(i)

PathOnlyMatches == SelectSeq([i \in 1 .. Len(zf) |-> i], PathOnlyMatch)

\* C38: on the fast path the result is the first fileMatchLimit matching files
\* in archive order, each without line matches, and the error is nil, also
\* when the deadline has fired or the caller has cancelled the context.
C38_FastPathInArchiveOrder ==
    ReturnedFromFastPath =>
        /\ err = nil
        /\ Len(matches) = IF Len(PathOnlyMatches) < EffectiveLimit(fileMatchLimit)
                          THEN Len(PathOnlyMatches)
                          ELSE EffectiveLimit(fileMatchLimit)
        /\ \A k \in 1 .. Len(matches) : matches[k] = PathMatch(PathOnlyMatches[k])

\* The fast path returned both files of the archive after the deadline fired.
C38_Witness ==
    /\ ReturnedFromFastPath
    /\ ctx = "deadline"
    /\ err = nil
    /\ ~limitHit
    /\ Len(matches) = 2
    /\ matches[1].Path = 1

\* ====================================================== the file scanner
\* readerGrep.Find on the bytes of one file. The specifications of the pure
\* functions run on the state of one call: zf is the file's bytes
\* (zf.DataFor(f)), rg the compiled matcher, and matches, limitHit and err
\* are what the call returns; the driver's other variables stay idle.

\* '\n'
NL == 10

\* maxLineMatches is the limit on number of matches to return in a file. The
\* source sets 100; the scan is checked at this size.
maxLineMatches == 3

\* maxOffsets is the limit on number of matches to return on a line. The source
\* sets 10; the scan is checked at this size.
maxOffsets == 2

\* The n of re.FindAllIndex at line 494. The source passes maxFileMatches
\* (1000); the scan is checked at this size.
findAllLimit == 4

\* The longest file, in code points.
MaxRunes == 5

\* The code points files are made of: '\n', 'A', 'a' and U+00E9, which UTF-8
\* encodes in two bytes.
Runes == {10, 65, 97, 233}

\* utf8.EncodeRune for code points below U+0800.
EncodeRune(r) ==
    IF r < 128 THEN << r >> ELSE << 192 + (r \div 64), 128 + (r % 64) >>

RECURSIVE Encode(_)
Encode(rs) ==
    IF rs = << >> THEN << >> ELSE EncodeRune(Head(rs)) \o Encode(Tail(rs))

\* The file contents a scan is started on: the UTF-8 bytes of every text of at
\* most MaxRunes code points.
FileBufs == { Encode(t) : t \in UNION { [1 .. k -> Runes] : k \in 0 .. MaxRunes } }

\* b[lo:hi] with Go's 0-based, half-open indices.
Slice(b, lo, hi) == SubSeq(b, lo + 1, hi)

\* b[lo:hi] panics unless 0 <= lo <= hi <= len(b).
SliceOK(b, lo, hi) == 0 <= lo /\ lo <= hi /\ hi <= Len(b)

\* bytes.Index(b, []byte{c}): the first index of c in b, -1 when there is none.
Index(b, c) ==
    IF \E i \in 1 .. Len(b) : b[i] = c
    THEN (CHOOSE i \in 1 .. Len(b) : b[i] = c /\ \A j \in 1 .. i - 1 : b[j] # c) - 1
    ELSE -1

\* bytes.LastIndex(b, []byte{c}): the last index of c in b, -1 when there is none.
LastIndex(b, c) ==
    IF \E i \in 1 .. Len(b) : b[i] = c
    THEN (CHOOSE i \in 1 .. Len(b) : b[i] = c /\ \A j \in i + 1 .. Len(b) : b[j] # c) - 1
    ELSE -1

\* bytes.Count(b, []byte{c})
Count(b, c) == Cardinality({ i \in 1 .. Len(b) : b[i] = c })

\* bytes.Contains(b, sub); an empty (nil) sub is contained in every b.
Contains(b, sub) ==
    \E i \in 0 .. Len(b) - Len(sub) : Slice(b, i, i + Len(sub)) = sub

\* bytes.SplitN(b, []byte{'\n'}, n) for n > 0: at most n pieces, the last one
\* the unsplit remainder.
RECURSIVE SplitN(_, _)
SplitN(b, n) ==
    IF n = 1 \/ Index(b, NL) < 0
    THEN << b >>
    ELSE << Slice(b, 0, Index(b, NL)) >> \o SplitN(Slice(b, Index(b, NL) + 1, Len(b)), n - 1)

\* The width utf8.DecodeRune reports for the bytes of b from index i on (two-byte
\* sequences are the longest in these files; an invalid byte has width 1).
RuneLen(b, i) ==
    IF b[i + 1] >= 192 /\ i + 1 < Len(b) /\ b[i + 2] \in 128 .. 191 THEN 2 ELSE 1

\* The code point utf8.DecodeRune reports there; 65533 is utf8.RuneError.
RuneAt(b, i) ==
    IF RuneLen(b, i) = 2 THEN (b[i + 1] - 192) * 64 + (b[i + 2] - 128)
    ELSE IF b[i + 1] < 128 THEN b[i + 1]
    ELSE 65533

RECURSIVE RuneCountFrom(_, _)
RuneCountFrom(b, i) ==
    IF i >= Len(b) THEN 0 ELSE 1 + RuneCountFrom(b, i + RuneLen(b, i))

\* utf8.RuneCount(b)
RuneCount(b) == RuneCountFrom(b, 0)

\* ------------------------------------------------------------ the regexp
\* rg.re for the scanner: a regexp that is a concatenation of one-character
\* classes, held as the sequence of their rune ranges (syntax.Regexp.Rune:
\* lo0, hi0, lo1, hi1, ...). A literal character is the class of one rune.

InClass(class, r) ==
    \E k \in 1 .. Len(class) \div 2 : class[2 * k - 1] <= r /\ r <= class[2 * k]

\* rg.re = nil: the regexp of an empty pattern (line 367). It is no sequence of
\* character classes: its one entry holds no range.
NilRe == << << >> >>

\* The regexp of a literal text.
LiteralRe(rs) == [i \in 1 .. Len(rs) |-> << rs[i], rs[i] >>]

\* The end of the match of re[k..] that starts at index i of b, -1 when there
\* is none.
RECURSIVE MatchAt(_, _, _, _)
MatchAt(b, re, k, i) ==
    IF k > Len(re) THEN i
    ELSE IF i >= Len(b) THEN -1
    ELSE IF InClass(re[k], RuneAt(b, i)) THEN MatchAt(b, re, k + 1, i + RuneLen(b, i))
    ELSE -1

\* The leftmost match of re in b that starts at pos or later: << start, end >>,
\* or << >> when there is none.
RECURSIVE Leftmost(_, _, _)
Leftmost(b, re, pos) ==
    IF pos > Len(b) THEN << >>
    ELSE IF MatchAt(b, re, 1, pos) >= 0 THEN << pos, MatchAt(b, re, 1, pos) >>
    ELSE IF pos = Len(b) THEN << >>
    ELSE Leftmost(b, re, pos + RuneLen(b, pos))

\* regexp's allMatches: successive non-overlapping matches, at most n of them;
\* an empty match right after the previous match is not delivered.
RECURSIVE allMatches(_, _, _, _, _)
allMatches(b, re, pos, prevMatchEnd, n) ==
    IF n = 0 \/ pos > Len(b) THEN << >>
    ELSE LET m == Leftmost(b, re, pos) IN
         IF m = << >> THEN << >>
         ELSE LET empty == m[2] = pos
                  accept == ~(empty /\ m[1] = prevMatchEnd)
                  next == IF ~empty THEN m[2]
                          ELSE IF pos < Len(b) THEN pos + RuneLen(b, pos)
                          ELSE Len(b) + 1
              IN  IF accept
                  THEN << m >> \o allMatches(b, re, next, m[2], n - 1)
                  ELSE allMatches(b, re, next, m[2], n)

\* re.FindAllIndex(b, n)
FindAllIndex(b, re, n) == allMatches(b, re, 0, -1, n)

\* re.FindIndex(b): << >> stands for nil.
FindIndex(b, re) == Leftmost(b, re, 0)

\* The case-folder, bytesToLowerASCII(dst, src): every byte 'A'..'Z' becomes
\* the byte 32 above it, every other byte is copied.
bytesToLowerASCII(src) ==
    [i \in 1 .. Len(src) |-> IF src[i] \in 65 .. 90 THEN src[i] + 32 ELSE src[i]]

\* ------------------------------------------------------------------ Find

\* protocol.LineMatch
LineMatch(preview, lineNumber, offset, length, lineLimitHit) ==
    [Preview |-> preview, LineNumber |-> lineNumber,
     OffsetAndLengths |-> << << offset, length >> >>, LimitHit |-> lineLimitHit]

\* hydrateLineNumbers that forgets the line number of the previous match.
hydrateLineNumbersNoCarry(fileBuf, lastLineNumber, lastMatchIndex, lineStart, match) ==
    [lineNumber |-> Count(Slice(fileBuf, lastMatchIndex, match[1]), NL),
     matchIndex |-> lineStart]

\* hydrateLineNumbers that counts on from the end of the match.
hydrateLineNumbersFromMatchEnd(fileBuf, lastLineNumber, lastMatchIndex, lineStart, match) ==
    [lineNumber |-> lastLineNumber + Count(Slice(fileBuf, lastMatchIndex, match[1]), NL),
     matchIndex |-> match[2]]

\* hydrateLineNumbers (lines 590-593)
hydrateLineNumbers(fileBuf, lastLineNumber, lastMatchIndex, lineStart, match) ==
    [lineNumber |-> lastLineNumber + Count(Slice(fileBuf, lastMatchIndex, match[1]), NL),
     matchIndex |-> lineStart]

\* Lines 530-564: the LineMatches of a match whose lines hold a newline.
MultiLineMatches(buf, start, end, lineStart, lineEnd, offset, lineNumber, lineLimitHit, matchLines) ==
    [i \in 1 .. Len(matchLines) |->
        LET line == matchLines[i]
            le == IF i = 1
                  THEN LastIndex(Slice(buf, 0, lineStart + Len(line) + 1), NL) - start
                  ELSE IF i = Len(matchLines)
                  THEN end - (LastIndex(Slice(buf, 0, end), NL) + 1)
                  ELSE Len(line)
        IN  LineMatch(Slice(buf, lineStart, lineEnd), lineNumber + (i - 1),
                      IF i = 1 THEN offset ELSE 0, le, lineLimitHit)]

\* The loop variables of Find before the first match (lines 495-497). owner[k]
\* is the index in locs of the match that matches[k] was emitted for, and
\* span[k] the bounds << lineStart, lineEnd >> its preview was sliced with.
ScanStart ==
    [lastLineNumber |-> 0, lastMatchIndex |-> 0, lastLineStartIndex |-> 0,
     matches |-> << >>, owner |-> << >>, span |-> << >>, panic |-> FALSE]

\* One turn of the loop at lines 500-583, for locs[idx] = match.
ScanMatch(buf, st, match, idx, lineLimitHit) ==
    LET start == match[1]
        end == match[2]
        found == st.lastLineStartIndex + LastIndex(Slice(buf, st.lastLineStartIndex, start), NL)
        lastLineStartIndex == IF found > 0 THEN found + 1 ELSE st.lastLineStartIndex
        bumped == IF found < Len(buf) - 1 /\ Len(buf) > 0 THEN found + 1 ELSE found
        lineEnd0 == end + Index(Slice(buf, end, Len(buf)), NL)
        lineStart == IF bumped < 0 THEN start ELSE bumped
        lineEnd == IF lineEnd0 < 0 THEN end ELSE lineEnd0
        inRange == /\ SliceOK(buf, st.lastLineStartIndex, start)
                   /\ SliceOK(buf, lastLineStartIndex, start)
                   /\ SliceOK(buf, st.lastMatchIndex, start)
                   /\ SliceOK(buf, lineStart, lineEnd)
        offset == RuneCount(Slice(buf, lastLineStartIndex, start))
        length == RuneCount(Slice(buf, start, end))
        hyd == hydrateLineNumbers(buf, st.lastLineNumber, st.lastMatchIndex, lineStart, match)
        matchLines == SplitN(Slice(buf, lineStart, lineEnd), maxLineMatches + 1)
        emitted == IF Len(matchLines) > 1
                   THEN MultiLineMatches(buf, start, end, lineStart, lineEnd, offset,
                                         hyd.lineNumber, lineLimitHit, matchLines)
                   ELSE << LineMatch(Slice(buf, lineStart, lineEnd), hyd.lineNumber,
                                     offset, length, lineLimitHit) >>
    IN  IF ~inRange
        THEN [st EXCEPT !.panic = TRUE]
        ELSE [lastLineNumber |-> hyd.lineNumber,
              lastMatchIndex |-> hyd.matchIndex,
              lastLineStartIndex |-> IF Len(matchLines) > 1 THEN lineStart ELSE lastLineStartIndex,
              matches |-> st.matches \o emitted,
              owner |-> st.owner \o [k \in 1 .. Len(emitted) |-> idx],
              span |-> st.span \o [k \in 1 .. Len(emitted) |-> << lineStart, lineEnd >>],
              panic |-> FALSE]

\* The loop at lines 500-583 from locs[idx] on.
RECURSIVE ScanLocs(_, _, _, _, _)
ScanLocs(buf, locs, idx, lineLimitHit, st) ==
    IF idx > Len(locs) \/ st.panic THEN st
    ELSE ScanLocs(buf, locs, idx + 1, lineLimitHit,
                  ScanMatch(buf, st, locs[idx], idx, lineLimitHit))

\* What Find returns when it returns early (lines 487, 491).
NoLineMatches ==
    [matches |-> << >>, limitHit |-> FALSE, err |-> nil, panic |-> FALSE,
     owner |-> << >>, span |-> << >>]

\* The buffer Find matches on (lines 467-477).
FileMatchBuf(fileBuf, g) ==
    IF g.ignoreCase THEN bytesToLowerASCII(fileBuf) ELSE fileBuf

\* Line 499 with >= for ==.
LineLimitHitAtLeast(locs) == Len(locs) >= maxOffsets

\* Line 499: lineLimitHit := len(locs) == maxOffsets
LineLimitHit(locs) == Len(locs) = maxOffsets

\* readerGrep.Find (lines 459-588) on the file's bytes. Line 489 calls FindIndex
\* on rg.re: with rg.re = nil that is a nil pointer dereference.
Find(fileBuf, g) ==
    LET fileMatchBuf == FileMatchBuf(fileBuf, g) IN
    IF ~Contains(fileMatchBuf, g.literalSubstring) THEN NoLineMatches
    ELSE IF g.re = NilRe THEN [NoLineMatches EXCEPT !.panic = TRUE]
    ELSE IF FindIndex(fileMatchBuf, g.re) = << >> THEN NoLineMatches
    ELSE LET locs == FindAllIndex(fileMatchBuf, g.re, findAllLimit)
             st == ScanLocs(fileMatchBuf, locs, 1, LineLimitHit(locs), ScanStart)
         IN  [matches |-> st.matches, limitHit |-> Len(st.matches) = maxLineMatches,
              err |-> nil, panic |-> st.panic, owner |-> st.owner, span |-> st.span]

\* ------------------------------------------- the specification of a scan

\* The patterns scans are run with: "a", the two-line "a\na", and a run of
\* newlines one longer than maxLineMatches.
Patterns == { << 97 >>, << 97, NL, 97 >>, [i \in 1 .. maxLineMatches + 1 |-> NL] }

\* The matchers compile builds for them: a literal pattern has a literal
\* prefix, so no literalSubstring is stored (line 402), and with ignoreCase
\* the pattern is lower-cased (line 389).
Matchers ==
    { [re |-> LiteralRe(pattern), ignoreCase |-> ic, literalSubstring |-> << >>] :
        pattern \in Patterns, ic \in BOOLEAN }

\* The driver's variables while no search runs.
Idle ==
    /\ fileMatchLimit = 0
    /\ patternMatchesContent = TRUE
    /\ patternMatchesPaths = FALSE
    /\ ctx = "none"
    /\ files = << >>
    /\ wgErr = nil
    /\ wgErrOnce = FALSE
    /\ filesSkipped = 0
    /\ filesSearched = 0
    /\ wpc = [w \in Workers |-> "idle"]
    /\ wfile = [w \in Workers |-> 0]
    /\ wfm = [w \in Workers |-> NoFileMatch]
    /\ scans = << >>
    /\ late = [w \in Workers |-> 0]
    /\ NoHeap

idle == << fileMatchLimit, patternMatchesContent, patternMatchesPaths, ctx, files,
           wgErr, wgErrOnce, filesSkipped, filesSearched, wpc, wfile, wfm, scans, late,
           heap, ui >>

InitFind ==
    /\ p = NoPattern
    /\ zf \in FileBufs
    /\ rg \in Matchers
    /\ pc = "start"
    /\ matches = << >>
    /\ limitHit = FALSE
    /\ err = nil
    /\ Idle
    /\ NoStream
    /\ NoUi

\* matches, limitHit, err := rg.Find(zf, f)
CallFind ==
    /\ pc = "start"
    /\ LET r == Find(zf, rg) IN
        /\ matches' = r.matches
        /\ limitHit' = r.limitHit
        /\ err' = r.err
        /\ pc' = IF r.panic THEN "panicked" ELSE "returned"
    /\ UNCHANGED << p, zf, rg >>
    /\ UNCHANGED << idle, stream >>

NextFind == CallFind

SpecFind == InitFind /\ [][NextFind]_vars

\* ------------------------------------------------ properties of a scan

\* The buffer the scan of the current file matched on.
ScanBuf == FileMatchBuf(zf, rg)

\* The match locations of the current file, all of them and those collected.
AllLocs == FindAllIndex(ScanBuf, rg.re, Len(ScanBuf) + 1)

Locs == FindAllIndex(ScanBuf, rg.re, findAllLimit)

\* Owner[k] is the index in Locs of the match matches[k] was emitted for.
Owner == Find(zf, rg).owner

\* matches[k] is the first LineMatch emitted for its match.
FirstOfMatch(k) == k = 1 \/ Owner[k - 1] # Owner[k]

\* The number of newline bytes of the file before index i.
NewlinesBefore(i) == Count(Slice(zf, 0, i), NL)

LineStartOf(b, i) == LastIndex(Slice(b, 0, i), NL) + 1

LineEndOf(b, i) ==
    IF Index(Slice(b, i, Len(b)), NL) < 0 THEN Len(b) ELSE i + Index(Slice(b, i, Len(b)), NL)

PhysicalLine(b, i) == Slice(b, LineStartOf(b, i), LineEndOf(b, i))

\* The match lies within one line.
SingleLine(loc) == Count(Slice(zf, loc[1], loc[2]), NL) = 0

\* The LineMatches emitted for Locs[i], in order.
EmittedFor(i) == SelectSeq([k \in 1 .. Len(matches) |-> k], LAMBDA k : Owner[k] = i)

\* The number of code points of b: its bytes that are not UTF-8 continuation bytes.
CodePoints(b) == Cardinality({ i \in 1 .. Len(b) : b[i] \notin 128 .. 191 })

\* C12: the preview of a LineMatch is exactly the bytes of the physical line
\* that holds the match, up to the next newline or the end of the file, and no
\* preview contains a newline byte. Stated for scans that do not fold case.
C12_PreviewIsPhysicalLine ==
    (pc = "returned" /\ ~rg.ignoreCase) =>
        \A k \in 1 .. Len(matches) :
            /\ SingleLine(Locs[Owner[k]]) =>
                   matches[k].Preview = PhysicalLine(zf, Locs[Owner[k]][1])
            /\ \A j \in 1 .. Len(matches[k].Preview) : matches[k].Preview[j] # NL

\* C13: with ignoreCase the preview of every LineMatch is taken from the
\* file's original bytes: it is the bytes the file holds from the start of the
\* match's line on, in their original case.
C13_PreviewKeepsCase ==
    (pc = "returned" /\ rg.ignoreCase) =>
        \A k \in 1 .. Len(matches) :
            LET lineStart == LineStartOf(zf, Locs[Owner[k]][1])
            IN  matches[k].Preview = Slice(zf, lineStart, lineStart + Len(matches[k].Preview))

\* C14: a match that crosses newlines yields one LineMatch for each physical
\* line it covers, and the preview of each is that physical line alone. Stated
\* for scans that do not fold case and matches that do not end in a newline.
C14_OneLineMatchPerLine ==
    (pc = "returned" /\ ~rg.ignoreCase) =>
        \A i \in 1 .. Len(Locs) :
            LET start == Locs[i][1]
                end == Locs[i][2]
                span == Slice(zf, LineStartOf(zf, start), LineEndOf(zf, end))
                lines == SplitN(span, Len(span) + 1)
            IN  (~SingleLine(Locs[i]) /\ zf[end] # NL) =>
                    /\ Len(EmittedFor(i)) = Len(lines)
                    /\ \A j \in 1 .. Len(lines) :
                           matches[EmittedFor(i)[j]].Preview = lines[j]

\* C15: for a match within one line the offset is the number of code points
\* between the start of the line and the start of the match, and the length
\* the number of code points of the match; neither is a byte count.
C15_OffsetsInCodePoints ==
    pc = "returned" =>
        \A k \in 1 .. Len(matches) :
            LET start == Locs[Owner[k]][1]
                end == Locs[Owner[k]][2]
            IN  SingleLine(Locs[Owner[k]]) =>
                    matches[k].OffsetAndLengths =
                        << << CodePoints(Slice(zf, LineStartOf(zf, start), start)),
                              CodePoints(Slice(zf, start, end)) >> >>

\* C16: Find returns limitHit = TRUE whenever some matches of the file may be
\* missing from the result, in particular whenever the file has more match
\* locations than were collected.
C16_LimitHitWhenMatchesMissing ==
    pc = "returned" => (Len(AllLocs) > Len(Locs) => limitHit)

\* C17: Find returns at most maxLineMatches LineMatches for a file, and a
\* single match emits at most maxLineMatches LineMatches.
C17_AtMostMaxLineMatches ==
    pc = "returned" =>
        /\ Len(matches) <= maxLineMatches
        /\ \A i \in 1 .. Len(Locs) : Len(EmittedFor(i)) <= maxLineMatches

\* The physical lines of b from the line that holds index i on.
LinesFrom(b, i) ==
    LET rest == Slice(b, LineStartOf(b, i), Len(b)) IN SplitN(rest, Len(rest) + 1)

\* C24: for a match that crosses newlines the emitted LineMatches carry
\* consecutive line numbers starting at the line of the match start; the first
\* has the in-line offset of the match start and as length the distance from
\* the match start to the first newline after it; every middle one has offset 0
\* and the full length of its line; the last has offset 0 and as length the
\* distance from the last newline before the match end to the match end. Line
\* numbers count from 0 and distances are differences of byte indices.
C24_MultiLineOffsets ==
    pc = "returned" =>
        \A i \in 1 .. Len(Locs) :
            LET start == Locs[i][1]
                end == Locs[i][2]
                ks == EmittedFor(i)
                n == Len(ks)
            IN  ~SingleLine(Locs[i]) =>
                    /\ n >= 2
                    /\ \A j \in 1 .. n :
                           LET m == matches[ks[j]] IN
                           /\ m.LineNumber = NewlinesBefore(start) + (j - 1)
                           /\ Len(m.OffsetAndLengths) = 1
                           /\ j = 1 =>
                                  m.OffsetAndLengths[1] =
                                      << CodePoints(Slice(zf, LineStartOf(zf, start), start)),
                                         Index(Slice(zf, start, Len(zf)), NL) >>
                           /\ (1 < j /\ j < n) =>
                                  m.OffsetAndLengths[1] = << 0, Len(LinesFrom(zf, start)[j]) >>
                           /\ (j = n /\ j > 1) =>
                                  m.OffsetAndLengths[1] =
                                      << 0, end - (LastIndex(Slice(zf, 0, end), NL) + 1) >>

\* C25: all LineMatches Find emits for one file carry the same LimitHit flag,
\* and the flag is true exactly when the number of match locations collected
\* in the file equals maxOffsets, not when it is larger.
C25_LineLimitHitIsEquality ==
    pc = "returned" =>
        \A k \in 1 .. Len(matches) : matches[k].LimitHit = (Len(Locs) = maxOffsets)

\* A scan that collected more than maxOffsets locations.
C25_Witness ==
    /\ pc = "returned"
    /\ Len(matches) > 0
    /\ Len(Locs) > maxOffsets
    /\ ~matches[1].LimitHit

\* ------------------------------------- scans with a pattern that may match
\* the empty text

\* The matchers compile builds for a regexp that matches the empty text at
\* every index, such as "()": no literal prefix, and an empty longestLiteral.
EmptyMatchers ==
    { [re |-> LiteralRe(<< >>), ignoreCase |-> ic, literalSubstring |-> << >>] :
        ic \in BOOLEAN }

\* The matchers for the patterns "\n" and "a\n", whose matches end a line.
LineEndMatchers ==
    { [re |-> LiteralRe(pattern), ignoreCase |-> ic, literalSubstring |-> << >>] :
        pattern \in { << NL >>, << 97, NL >> }, ic \in BOOLEAN }

InitFindAny ==
    /\ p = NoPattern
    /\ zf \in FileBufs
    /\ rg \in Matchers \cup EmptyMatchers \cup LineEndMatchers
    /\ pc = "start"
    /\ matches = << >>
    /\ limitHit = FALSE
    /\ err = nil
    /\ Idle
    /\ NoStream
    /\ NoUi

SpecFindAny == InitFindAny /\ [][NextFind]_vars

\* C33: Find slices the buffer within its bounds only, and the bounds of the
\* line it emits for a match satisfy 0 <= lineStart <= lineEnd <= len(file)
\* and lineStart <= start.
C33_SlicesInRange ==
    /\ pc # "panicked"
    /\ pc = "returned" =>
          \A k \in 1 .. Len(matches) :
              LET lineStart == Find(zf, rg).span[k][1]
                  lineEnd == Find(zf, rg).span[k][2]
                  start == Locs[Owner[k]][1]
              IN  /\ 0 <= lineStart
                  /\ lineStart <= lineEnd
                  /\ lineEnd <= Len(zf)
                  /\ lineStart <= start

\* The same for the patterns that match no empty text.
SlicesInRangeNonEmpty ==
    rg \notin EmptyMatchers => C33_SlicesInRange

\* C36: the line numbers of the LineMatches never decrease in the order of
\* emission, and the line numbers of two consecutive match locations (those
\* of the first LineMatch emitted for each) differ by the number of newline
\* bytes between the two match starts, also when the earlier match holds
\* newlines.
C36_LineNumbersFollowNewlines ==
    pc = "returned" =>
        /\ \A k \in 2 .. Len(matches) : matches[k - 1].LineNumber <= matches[k].LineNumber
        /\ \A i \in 2 .. Len(Locs) :
               matches[EmittedFor(i)[1]].LineNumber - matches[EmittedFor(i - 1)[1]].LineNumber
                   = Count(Slice(ScanBuf, Locs[i - 1][1], Locs[i][1]), NL)

\* Two matches of "a\n", each of which holds a newline, the second two lines
\* below the first.
C36_Witness ==
    /\ pc = "returned"
    /\ rg.re = LiteralRe(<< 97, NL >>)
    /\ Len(Locs) = 2
    /\ ~SingleLine(Locs[1])
    /\ matches[EmittedFor(2)[1]].LineNumber = matches[EmittedFor(1)[1]].LineNumber + 2

\* The matches i and j of Locs lie within one line of the file.
OnOneLine(i, j) == Count(Slice(zf, Locs[i][1], Locs[j][2]), NL) = 0

\* C37: every LineMatch carries exactly one (offset, length) pair, and two
\* matches that lie on the same line give one LineMatch each, in match order,
\* with the same line number and the same preview.
C37_OneLineMatchPerMatch ==
    pc = "returned" =>
        /\ \A k \in 1 .. Len(matches) : Len(matches[k].OffsetAndLengths) = 1
        /\ \A i, j \in 1 .. Len(Locs) :
               (i < j /\ OnOneLine(i, j)) =>
                   /\ Len(EmittedFor(i)) = 1
                   /\ Len(EmittedFor(j)) = 1
                   /\ EmittedFor(i)[1] < EmittedFor(j)[1]
                   /\ matches[EmittedFor(i)[1]].LineNumber = matches[EmittedFor(j)[1]].LineNumber
                   /\ matches[EmittedFor(i)[1]].Preview = matches[EmittedFor(j)[1]].Preview

\* The same for the lines that end in a newline.
OneLineMatchPerMatchTerminated ==
    pc = "returned" =>
        \A i, j \in 1 .. Len(Locs) :
            (i < j /\ OnOneLine(i, j) /\ Index(Slice(zf, Locs[j][2], Len(zf)), NL) >= 0) =>
                /\ Len(EmittedFor(i)) = 1
                /\ Len(EmittedFor(j)) = 1
                /\ EmittedFor(i)[1] < EmittedFor(j)[1]
                /\ matches[EmittedFor(i)[1]].LineNumber = matches[EmittedFor(j)[1]].LineNumber
                /\ matches[EmittedFor(i)[1]].Preview = matches[EmittedFor(j)[1]].Preview

\* ================================================== compiling a pattern
\* compile, lowerRegexpASCII and longestLiteral on the syntax tree of the
\* pattern (regexp/syntax.Regexp): op, the runes of a literal or the rune
\* ranges of a class (lo0, hi0, lo1, hi1, ...), the FoldCase flag, the
\* sub-expressions, and the minimum of a repetition.

\* utf8.MaxRune
MaxRune == 1114111

Node(op, rune, fold, sub, min) ==
    [op |-> op, rune |-> rune, fold |-> fold, sub |-> sub, min |-> min]

OpLiteral(rune, fold) == Node("OpLiteral", rune, fold, << >>, 0)

OpCharClass(rune) == Node("OpCharClass", rune, FALSE, << >>, 0)

IsUpper(r) == r \in 65 .. 90

IsLower(r) == r \in 97 .. 122

\* unicode.ToLower and unicode.ToUpper on the code points used here (ASCII and
\* U+00E9 aside, none has a case mapping).
ToLower(r) == IF IsUpper(r) THEN r + 32 ELSE r

ToUpper(r) == IF IsLower(r) THEN r - 32 ELSE r

\* The larger of a non-empty set of numbers.
MaxOf(S) == CHOOSE x \in S : \A y \in S : y <= x

\* syntax.cleanClass: the ranges sorted, overlapping and adjacent ones merged.
RECURSIVE cleanClass(_)
cleanClass(items) ==
    IF items = {} THEN << >>
    ELSE LET first == CHOOSE x \in items :
                          \A y \in items : x[1] < y[1] \/ (x[1] = y[1] /\ x[2] >= y[2])
             touching == { y \in items \ {first} : y[1] <= first[2] + 1 }
         IN  IF touching = {}
             THEN << first[1], first[2] >> \o cleanClass(items \ {first})
             ELSE cleanClass((items \ ({first} \cup touching))
                             \cup { << first[1], MaxOf({first[2]} \cup { y[2] : y \in touching }) >> })

\* syntax.negateClass on cleaned ranges, from index i on.
RECURSIVE negateClass(_, _, _)
negateClass(r, i, nextLo) ==
    IF i >= Len(r)
    THEN IF nextLo <= MaxRune THEN << nextLo, MaxRune >> ELSE << >>
    ELSE (IF nextLo <= r[i + 1] - 1 THEN << nextLo, r[i + 1] - 1 >> ELSE << >>)
         \o negateClass(r, i + 2, r[i + 2] + 1)

\* The parser's node for a bracket expression: a class of one rune becomes a
\* literal, a class of a letter in both cases a literal with the FoldCase flag
\* that holds the upper-case (smaller) rune.
ClassNode(r) ==
    IF Len(r) = 2 /\ r[1] = r[2]
    THEN OpLiteral(<< r[1] >>, FALSE)
    ELSE IF Len(r) = 4 /\ r[1] = r[2] /\ r[3] = r[4] /\ IsUpper(r[1]) /\ r[3] = r[1] + 32
    THEN OpLiteral(<< r[1] >>, TRUE)
    ELSE OpCharClass(r)

\* A written pattern of one element:
\*   [kind |-> "char", c]             the character c
\*   [kind |-> "foldchar", c]         (?i)c
\*   [kind |-> "class", neg, items]   [items] or [^items], items a set of << lo, hi >>
\* ok is FALSE when a range of the class has lo > hi (a parse error).
Parse(expr) ==
    IF expr.kind = "char" THEN [ok |-> TRUE, re |-> OpLiteral(<< expr.c >>, FALSE)]
    ELSE IF expr.kind = "foldchar"
    THEN [ok |-> TRUE, re |-> OpLiteral(<< ToUpper(expr.c) >>, IsLower(expr.c) \/ IsUpper(expr.c))]
    ELSE IF \E x \in expr.items : x[1] > x[2] THEN [ok |-> FALSE, re |-> OpCharClass(<< >>)]
    ELSE [ok |-> TRUE,
          re |-> ClassNode(IF expr.neg
                           THEN negateClass(cleanClass(expr.items), 0, 0)
                           ELSE cleanClass(expr.items))]

\* syntax.Regexp.String for these nodes, as the written pattern it prints: a
\* class that holds 0 and MaxRune is printed negated, by its gaps.
String(re) ==
    IF re.op = "OpLiteral"
    THEN [kind |-> IF re.fold THEN "foldchar" ELSE "char", c |-> re.rune[1]]
    ELSE LET r == re.rune
             n == Len(r) \div 2
         IN  IF n > 1 /\ r[1] = 0 /\ r[Len(r)] = MaxRune
             THEN [kind |-> "class", neg |-> TRUE,
                   items |-> { << r[2 * k] + 1, r[2 * k + 1] - 1 >> : k \in 1 .. n - 1 }]
             ELSE [kind |-> "class", neg |-> FALSE,
                   items |-> { << r[2 * k - 1], r[2 * k] >> : k \in 1 .. n }]

\* ------------------------------------------------------ lowerRegexpASCII

\* Lines 793-816: the exclusive ranges within ('a'-1, 'z'+1) to remove, from the
\* gaps of the class between index i and i+1.
RECURSIVE Excluded(_, _)
Excluded(r, i) ==
    IF i >= Len(r) - 1 THEN << >>
    ELSE LET a == r[i + 1]
             b == r[i + 2]
         IN  IF a > 90 \/ b < 65 THEN Excluded(r, i + 2)
             ELSE << (IF a < 65 THEN 64 ELSE a) + 32, (IF b > 90 THEN 91 ELSE b) + 32 >>
                  \o Excluded(r, i + 2)

\* Lines 827-829
RECURSIVE DropBefore(_, _)
DropBefore(excluded, a) ==
    IF Len(excluded) > 0 /\ a >= excluded[2]
    THEN DropBefore(SubSeq(excluded, 3, Len(excluded)), a)
    ELSE excluded

\* Lines 820-846: the included ranges copied, each cut by the exclusion range
\* at the head of excluded.
RECURSIVE CopyRanges(_, _, _)
CopyRanges(r, i, excluded) ==
    IF i >= Len(r) THEN << >>
    ELSE LET a == r[i + 1]
             b == r[i + 2]
             ex == DropBefore(excluded, a)
         IN  IF Len(ex) = 0 \/ b <= ex[1]
             THEN << a, b >> \o CopyRanges(r, i + 2, ex)
             ELSE (IF a <= ex[1] THEN << a, ex[1] >> ELSE << >>)
                  \o (IF b >= ex[2] THEN << ex[2], b >> ELSE << >>)
                  \o CopyRanges(r, i + 2, ex)

\* Lines 856-883: the ranges that meet A-Z lower-cased in place, or appended
\* when they reach outside A-Z; l is the length before the loop.
RECURSIVE LowerRanges(_, _, _)
LowerRanges(r, i, l) ==
    IF i >= l THEN r
    ELSE LET a == r[i + 1]
             b == r[i + 2]
             simple == a >= 65 /\ b <= 90
             la == ToLower(IF a < 65 THEN 65 ELSE a)
             lb == ToLower(IF b > 90 THEN 90 ELSE b)
         IN  IF a > 90 \/ b < 65 THEN LowerRanges(r, i + 2, l)
             ELSE IF simple
             THEN LowerRanges([r EXCEPT ![i + 1] = la, ![i + 2] = lb], i + 2, l)
             ELSE LowerRanges(r \o << la, lb >>, i + 2, l)

\* Line 776
IsExclusion(r) == Len(r) >= 4 /\ r[1] = 0 /\ r[Len(r)] = MaxRune

\* Lines 767-885: the runes of an OpCharClass after lowerRegexpASCII.
LowerClass(r) ==
    IF IsExclusion(r) THEN CopyRanges(r, 0, Excluded(r, 1))
    ELSE IF \E k \in 1 .. Len(r) \div 2 : r[2 * k - 1] <= 97 /\ r[2 * k] >= 122 THEN r
    ELSE LowerRanges(r, 0, Len(r))

\* lowerRegexpASCII (lines 755-893): the tree after the call.
RECURSIVE lowerRegexpASCII(_)
lowerRegexpASCII(re) ==
    LET sub == [i \in 1 .. Len(re.sub) |-> lowerRegexpASCII(re.sub[i])]
    IN  IF re.op = "OpLiteral"
        THEN [re EXCEPT !.sub = sub, !.rune = [i \in 1 .. Len(re.rune) |-> ToLower(re.rune[i])]]
        ELSE IF re.op = "OpCharClass"
        THEN [re EXCEPT !.sub = sub, !.rune = LowerClass(re.rune)]
        ELSE [re EXCEPT !.sub = sub]

\* --------------------------------------------------------- longestLiteral

\* Line 915 with >= for >: the last of the longest results is kept.
LongerOrEqual(l, longest) == Len(l) >= Len(longest)

\* Line 915: len(l) > len(longest), on the bytes of the two strings.
Longer(l, longest) == Len(l) > Len(longest)

\* longestLiteral (lines 901-922); string(re.Rune) is the UTF-8 encoding of
\* the runes.
RECURSIVE longestLiteral(_)
longestLiteral(re) ==
    IF re.op = "OpLiteral" THEN Encode(re.rune)
    ELSE IF re.op \in {"OpCapture", "OpPlus"} THEN longestLiteral(re.sub[1])
    ELSE IF re.op = "OpRepeat" /\ re.min >= 1 THEN longestLiteral(re.sub[1])
    ELSE IF re.op = "OpConcat"
    THEN LET RECURSIVE Longest(_, _)
             Longest(i, longest) ==
                 IF i > Len(re.sub) THEN longest
                 ELSE LET l == longestLiteral(re.sub[i])
                      IN  Longest(i + 1, IF Longer(l, longest) THEN l ELSE longest)
         IN  Longest(1, << >>)
    ELSE << >>

\* ----------------------------------------------------------------- compile

\* Regexp.Simplify rewrites counted repetitions; the trees compiled here have
\* none, and every other node is kept with its sub-expressions simplified.
RECURSIVE Simplify(_)
Simplify(re) == [re EXCEPT !.sub = [i \in 1 .. Len(re.sub) |-> Simplify(re.sub[i])]]

\* re.LiteralPrefix(): the literal every match begins with. A literal with the
\* FoldCase flag and a class give none. (Of a concatenation only the prefix of
\* its first element is kept: compile asks only whether the prefix is empty.)
RECURSIVE LiteralPrefix(_)
LiteralPrefix(re) ==
    IF re.op = "OpLiteral" THEN (IF re.fold THEN << >> ELSE re.rune)
    ELSE IF re.op \in {"OpCapture", "OpPlus", "OpConcat"} /\ Len(re.sub) > 0
    THEN LiteralPrefix(re.sub[1])
    ELSE << >>

\* The program regexp.Compile builds for the tree, as the scanner runs it: one
\* class of rune ranges per character.
RECURSIVE Program(_)
Program(re) ==
    IF re.op = "OpLiteral"
    THEN [i \in 1 .. Len(re.rune) |->
            IF re.fold /\ ToLower(re.rune[i]) # ToUpper(re.rune[i])
            THEN << ToUpper(re.rune[i]), ToUpper(re.rune[i]), ToLower(re.rune[i]), ToLower(re.rune[i]) >>
            ELSE << re.rune[i], re.rune[i] >>]
    ELSE IF re.op = "OpCharClass" THEN << re.rune >>
    ELSE LET RECURSIVE Cat(_)
             Cat(i) == IF i > Len(re.sub) THEN << >> ELSE Program(re.sub[i]) \o Cat(i + 1)
         IN  Cat(1)

\* The readerGrep before compile has run.
NotCompiled == [re |-> << >>, ignoreCase |-> FALSE, literalSubstring |-> << >>]

\* The error of syntax.Parse or regexp.Compile.
ParseError == [kind |-> "Parse", file |-> 0]

\* Lines 394-424: the readerGrep for the tree of the final expr.
Build(info, tree) ==
    [re |-> Program(tree),
     ignoreCase |-> ~info.IsCaseSensitive,
     literalSubstring |-> IF LiteralPrefix(tree) = << >>
                          THEN longestLiteral(Simplify(tree))
                          ELSE << >>]

\* compile (lines 364-427) for a PatternInfo with IsRegExp set: ok is FALSE
\* when it returns an error.
compile(info) ==
    LET tree == IF info.IsCaseSensitive
                THEN Parse(info.expr)
                ELSE Parse(String(lowerRegexpASCII(Parse(info.expr).re)))
    IN  IF tree.ok
        THEN [ok |-> TRUE, rg |-> Build(info, tree.re)]
        ELSE [ok |-> FALSE, rg |-> NotCompiled]

\* --------------------------------------- the specification of a compile

\* The most elements a written class has.
MaxItems == 2

\* The longest file, in code points, a compiled pattern is run on.
MaxText == 2

\* The elements classes are written with: A, C, M, c, @ and A-Z.
ClassItems == { << 65, 65 >>, << 67, 67 >>, << 77, 77 >>, << 99, 99 >>, << 64, 64 >>, << 65, 90 >> }

\* The written patterns: C, c, (?i)c and the classes [..] and [^..].
Exprs ==
    { [kind |-> "char", c |-> c] : c \in {67, 99} }
    \cup { [kind |-> "foldchar", c |-> 99] }
    \cup { [kind |-> "class", neg |-> neg, items |-> items] :
             neg \in BOOLEAN,
             items \in { S \in SUBSET ClassItems : Cardinality(S) \in 1 .. MaxItems } }

PatternInfos == [expr : Exprs, IsCaseSensitive : BOOLEAN]

\* The files they are run on: texts of @, A, a, C and c.
TextBufs == UNION { [1 .. k -> {64, 65, 97, 67, 99}] : k \in 0 .. MaxText }

InitCompile ==
    /\ p \in PatternInfos
    /\ zf \in TextBufs
    /\ rg = NotCompiled
    /\ pc = "start"
    /\ matches = << >>
    /\ limitHit = FALSE
    /\ err = nil
    /\ Idle
    /\ NoStream
    /\ NoUi

\* Lines 383-391: re, err := syntax.Parse(expr, syntax.Perl); lowerRegexpASCII(re).
\* rg.re holds the tree until it is compiled.
LowerPattern ==
    /\ pc = "start"
    /\ ~p.IsCaseSensitive
    /\ rg' = [rg EXCEPT !.re = lowerRegexpASCII(Parse(p.expr).re)]
    /\ pc' = "lowered"
    /\ UNCHANGED << p, zf, matches, limitHit, err >>
    /\ UNCHANGED << idle, stream >>

\* Lines 392-427: expr = re.String(), regexp.Compile, the literal pre-filter.
CompilePattern ==
    /\ \/ pc = "start" /\ p.IsCaseSensitive
       \/ pc = "lowered"
    /\ LET tree == IF p.IsCaseSensitive THEN Parse(p.expr) ELSE Parse(String(rg.re))
       IN  IF tree.ok
           THEN /\ rg' = Build(p, tree.re)
                /\ pc' = "compiled"
                /\ err' = nil
           ELSE /\ rg' = NotCompiled
                /\ pc' = "failed"
                /\ err' = ParseError
    /\ UNCHANGED << p, zf, matches, limitHit >>
    /\ UNCHANGED << idle, stream >>

\* matches, limitHit, err := rg.Find(zf, f) with the compiled matcher.
FindCompiled ==
    /\ pc = "compiled"
    /\ LET r == Find(zf, rg) IN
        /\ matches' = r.matches
        /\ limitHit' = r.limitHit
        /\ err' = r.err
        /\ pc' = IF r.panic THEN "panicked" ELSE "returned"
    /\ UNCHANGED << p, zf, rg >>
    /\ UNCHANGED << idle, stream >>

NextCompile ==
    \/ LowerPattern
    \/ CompilePattern
    \/ FindCompiled

SpecCompile == InitCompile /\ [][NextCompile]_vars

\* --------------------------------------------- properties of a compile

\* C18: whenever compile stores a non-empty literal pre-filter, the literal is
\* a substring of every byte sequence the compiled regexp matches, so Find with
\* the pre-filter returns the same line matches as Find without it.
C18_LiteralInEveryMatch ==
    (pc = "returned" /\ rg.literalSubstring # << >>) =>
        /\ \A i \in 1 .. Len(AllLocs) :
               Contains(Slice(ScanBuf, AllLocs[i][1], AllLocs[i][2]), rg.literalSubstring)
        /\ matches = Find(zf, [rg EXCEPT !.literalSubstring = << >>]).matches

\* The written class holds the rune c.
InItems(items, c) == \E x \in items : x[1] <= c /\ c <= x[2]

\* The written class, taken case-insensitively, matches the lower-case letter
\* or the non-letter c.
MatchesInsensitive(expr, c) ==
    IF expr.neg
    THEN ~InItems(expr.items, c) /\ ~InItems(expr.items, ToUpper(c))
    ELSE InItems(expr.items, c) \/ InItems(expr.items, ToUpper(c))

\* The one-character tree re matches the rune c.
NodeMatches(re, c) == InClass(Program(re)[1], c)

\* Lower-case letters and non-letters: a, b, c, m, n, z and NUL, '\n', '@', '[',
\* '`', '{', MaxRune.
ProbeRunes == {97, 98, 99, 109, 110, 122} \cup {0, 10, 64, 91, 96, 123, MaxRune}

\* C19: after lowerRegexpASCII a class matches a lower-cased ASCII character
\* exactly when the class as written, taken case-insensitively, matches it
\* (for [^S]: when neither the character nor its upper-case form is in S), and
\* characters other than letters keep their membership.
C19_LoweredClassIsInsensitive ==
    (pc = "lowered" /\ p.expr.kind = "class") =>
        \A c \in ProbeRunes : NodeMatches(rg.re, c) <=> MatchesInsensitive(p.expr, c)

\* The written pattern with its ASCII letters in lower case.
LowerExpr(expr) ==
    IF expr.kind = "class"
    THEN [expr EXCEPT !.items = { << ToLower(x[1]), ToLower(x[2]) >> : x \in expr.items }]
    ELSE [expr EXCEPT !.c = ToLower(expr.c)]

\* The line number, offset and length of every LineMatch.
LineInfo(ms) == [k \in 1 .. Len(ms) |-> << ms[k].LineNumber, ms[k].OffsetAndLengths >>]

\* C20: with IsCaseSensitive = FALSE a pattern and the same pattern written in
\* lower case compile alike and return the same line matches (line numbers,
\* offsets, lengths) on every file, and the matches of a file do not depend on
\* the case of its letters.
C20_CaseOfPatternAndFile ==
    (pc \in {"returned", "failed"} /\ ~p.IsCaseSensitive) =>
        LET q == compile([p EXCEPT !.expr = LowerExpr(p.expr)])
        IN  /\ q.ok <=> pc = "returned"
            /\ pc = "returned" =>
                /\ LineInfo(matches) = LineInfo(Find(zf, q.rg).matches)
                /\ \A t \in TextBufs :
                       bytesToLowerASCII(t) = bytesToLowerASCII(zf) =>
                           LineInfo(Find(t, rg).matches) = LineInfo(matches)

\* ============================================ extracting the literal
\* longestLiteral on syntax trees of every shape: rg.re holds the tree given
\* to the call and rg.literalSubstring what the call returned.

\* The nodes without sub-expressions: the literals "a", "ab", "bc" and U+00E9
\* (two bytes), a class, and the empty match.
Leaves ==
    { OpLiteral(r, FALSE) : r \in { << 97 >>, << 97, 98 >>, << 98, 99 >>, << 233 >> } }
    \cup { OpCharClass(<< 97, 98 >>), Node("OpEmptyMatch", << >>, FALSE, << >>, 0) }

\* The nodes of one sub-expression: x*, x+, x?, (x) and x{min,}.
Unary(S) ==
    { Node(op, << >>, FALSE, << x >>, 0) : op \in {"OpStar", "OpPlus", "OpQuest", "OpCapture"}, x \in S }
    \cup { Node("OpRepeat", << >>, FALSE, << x >>, min) : min \in 0 .. 2, x \in S }

\* Concatenations and alternations of two, and of three, sub-expressions.
Pairs(S) ==
    { Node(op, << >>, FALSE, << x, y >>, 0) : op \in {"OpConcat", "OpAlternate"}, x \in S, y \in S }

Triples(S) ==
    { Node(op, << >>, FALSE, << x, y, z >>, 0) :
        op \in {"OpConcat", "OpAlternate"}, x \in S, y \in S, z \in S }

\* The trees the literal is extracted from: a leaf or an operator over a leaf;
\* two of those concatenated or alternated; three leaves concatenated or
\* alternated; and an operator over two concatenated or alternated leaves.
Trees ==
    LET inner == Leaves \cup Unary(Leaves)
    IN  inner \cup Pairs(inner) \cup Triples(Leaves) \cup Unary(Pairs(Leaves))

InitLiteral ==
    /\ p = NoPattern
    /\ zf = << >>
    /\ rg \in { [re |-> t, ignoreCase |-> FALSE, literalSubstring |-> << >>] : t \in Trees }
    /\ pc = "start"
    /\ matches = << >>
    /\ limitHit = FALSE
    /\ err = nil
    /\ Idle
    /\ NoStream
    /\ NoUi

\* literalSubstring = []byte(longestLiteral(ast)) (line 408), also when it was
\* extracted before. The function only reads the tree.
ExtractLiteral ==
    /\ pc \in {"start", "returned"}
    /\ rg' = [rg EXCEPT !.literalSubstring = longestLiteral(rg.re)]
    /\ pc' = "returned"
    /\ UNCHANGED << p, zf, matches, limitHit, err >>
    /\ UNCHANGED << idle, stream >>

NextLiteral == ExtractLiteral

SpecLiteral == InitLiteral /\ [][NextLiteral]_vars

\* The literal the per-node rules give for the tree re: the runes of a
\* literal; the result of the child for a capture, for x+ and for a repetition
\* of minimum 1 or more; for a concatenation the first of its longest
\* children's results; the empty string for every other node.
RECURSIVE LiteralByRule(_)
LiteralByRule(re) ==
    LET results == [i \in 1 .. Len(re.sub) |-> LiteralByRule(re.sub[i])]
    IN  CASE re.op = "OpLiteral" -> Encode(re.rune)
          [] re.op \in {"OpCapture", "OpPlus"} -> results[1]
          [] re.op = "OpRepeat" -> IF re.min >= 1 THEN results[1] ELSE << >>
          [] re.op = "OpConcat" ->
                 IF results = << >> THEN << >>
                 ELSE results[CHOOSE i \in 1 .. Len(results) :
                                  /\ \A j \in 1 .. Len(results) : Len(results[j]) <= Len(results[i])
                                  /\ \A j \in 1 .. i - 1 : Len(results[j]) < Len(results[i])]
          [] OTHER -> << >>

\* C26: longestLiteral returns what the per-node rules give (the longest result
\* of a concatenation is the longest string in bytes, the first one on a tie),
\* it leaves the tree as it was, and extracting again gives the same result.
C26_LongestLiteralRules ==
    /\ [](pc = "returned" => rg.literalSubstring = LiteralByRule(rg.re))
    /\ [][rg'.re = rg.re]_vars
    /\ [][pc = "returned" => rg'.literalSubstring = rg.literalSubstring]_vars

\* A concatenation of the two-byte literal U+00E9 and a repetition, of minimum
\* 1, of the literal "ab": the results tie in bytes and the first is returned.
C26_Witness ==
    /\ pc = "returned"
    /\ rg.re.op = "OpConcat"
    /\ Len(rg.re.sub) = 2
    /\ rg.re.sub[1].op = "OpLiteral" /\ rg.re.sub[1].rune = << 233 >>
    /\ rg.re.sub[2].op = "OpRepeat" /\ rg.re.sub[2].min = 1
    /\ rg.re.sub[2].sub[1].rune = << 97, 98 >>
    /\ rg.literalSubstring = Encode(<< 233 >>)

\* ================================================================ readAll
\* readAll(r, b) (lines 926-952), one action for each turn of its loop. The
\* reader is a stream of bytes that ends in io.EOF or in a read error; each
\* Read delivers as many of the bytes left as it likes, at least one, and may
\* report the end together with the last bytes or in a Read of its own, as
\* io.Reader allows. (A Read of 0 bytes and a nil error is not modelled.)

\* The longest stream and the longest buffer.
MaxStream == 3

MaxBuf == 2

\* The bytes streams are made of.
StreamBytes == {1, 2}

\* errors.New("reader is too large"), and the error of a failing Read.
TooLarge == [kind |-> "reader is too large", file |-> 0]

ReadErr == [kind |-> "Read", file |-> 0]

Readers ==
    [data : UNION { [1 .. k -> StreamBytes] : k \in 0 .. MaxStream }, pos : {0}, end : {"EOF", "Err"}]

\* The results r.Read may give for a buffer with room for `room` > 0 bytes: m
\* bytes and the error e ("nil", "EOF" or "Err").
Reads(rd, room) ==
    LET left == Len(rd.data) - rd.pos
    IN  IF left = 0
        THEN { [m |-> 0, e |-> rd.end] }
        ELSE { [m |-> m, e |-> "nil"] : m \in 1 .. (IF left < room THEN left ELSE room) }
             \cup (IF left <= room THEN { [m |-> left, e |-> rd.end] } ELSE {})

\* The backing array of b after m bytes of the stream were read into b.
Filled(d, rd, m) ==
    [bytes |-> [i \in 1 .. Len(d.bytes) |->
                   IF i > d.off /\ i <= d.off + m THEN rd.data[rd.pos + (i - d.off)]
                   ELSE d.bytes[i]],
     off |-> d.off + m]

\* Lines 936-939: what readAll returns after the Read into scratch gave e.
ScratchError(e) == IF e = "EOF" THEN nil ELSE TooLarge

\* Lines 945-950: what readAll returns after a Read into b gave the error e.
ReadError(e) == IF e = "EOF" THEN nil ELSE ReadErr

InitReadAll ==
    /\ p = NoPattern
    /\ zf = << >>
    /\ rg = NotCompiled
    /\ pc = "start"
    /\ matches = << >>
    /\ limitHit = FALSE
    /\ err = nil
    /\ Idle
    /\ reader \in Readers
    /\ dest \in { [bytes |-> [i \in 1 .. k |-> 0], off |-> 0] : k \in 0 .. MaxBuf }
    /\ count = 0
    /\ NoUi

\* Lines 929-940: len(b) == 0, one byte is read into scratch.
ReadScratch ==
    /\ pc \in {"start", "running"}
    /\ dest.off = Len(dest.bytes)
    /\ \E res \in Reads(reader, 1) :
          /\ reader' = [reader EXCEPT !.pos = @ + res.m]
          /\ err' = ScratchError(res.e)
    /\ pc' = "returned"
    /\ UNCHANGED << p, zf, rg, matches, limitHit, dest, count, idle >>

\* Lines 942-950: m, err := r.Read(b); n += m; b = b[m:].
ReadInto ==
    /\ pc \in {"start", "running"}
    /\ dest.off < Len(dest.bytes)
    /\ \E res \in Reads(reader, Len(dest.bytes) - dest.off) :
          /\ reader' = [reader EXCEPT !.pos = @ + res.m]
          /\ dest' = Filled(dest, reader, res.m)
          /\ count' = count + res.m
          /\ IF res.e = "nil"
             THEN pc' = "running" /\ err' = err
             ELSE pc' = "returned" /\ err' = ReadError(res.e)
    /\ UNCHANGED << p, zf, rg, matches, limitHit, idle >>

NextReadAll ==
    \/ ReadScratch
    \/ ReadInto

SpecReadAll == InitReadAll /\ [][NextReadAll]_vars

\* C22: readAll returns a nil error exactly when the stream ends in EOF and
\* holds at most len(b) bytes, for every chunking of the reads; then n is the
\* length of the stream and its bytes sit in order at the front of b. When the
\* stream is longer than b it returns "reader is too large" with n = len(b).
\* When a Read fails before the buffer is full, that error is returned with
\* the count read so far.
C22_ReadAllContract ==
    pc = "returned" =>
        LET size == Len(dest.bytes)
            front == Slice(dest.bytes, 0, count)
        IN  /\ err = nil <=> (reader.end = "EOF" /\ Len(reader.data) <= size)
            /\ err = nil => (count = Len(reader.data) /\ front = reader.data)
            /\ Len(reader.data) > size => (err = TooLarge /\ count = size)
            /\ (reader.end = "Err" /\ Len(reader.data) < size) =>
                   (err = ReadErr /\ count = Len(reader.data))
            /\ err = ReadErr => (count = reader.pos /\ front = Slice(reader.data, 0, count))

\* ================================================ the pool and its memory
\* concurrentFind's worker pool on an archive of bytes, with the memory the
\* workers read and write: every readerGrep's scratch buffer (transformBuf),
\* the two mutexes, the archive's bytes, and the preview strings, each of
\* which is either a copy of its own or a view of a buffer. A file of the
\* archive is [matchPath, data]; rg is the caller's compiled matcher, whose
\* pattern every clone shares. The pool is run with patternMatchesPaths false.

\* The contents of the files: "A\n", "b\n" and "a\nA\n".
PoolData == { << 65, NL >>, << 98, NL >>, << 97, NL, 65, NL >> }

PoolFiles ==
    { [matchPath |-> TRUE, data |-> d] : d \in PoolData }
    \cup { [matchPath |-> FALSE, data |-> << 65, NL >>] }

\* The pattern "a", case-sensitive or not.
PoolMatchers ==
    { [re |-> LiteralRe(<< 97 >>), ignoreCase |-> ic, literalSubstring |-> << >>] : ic \in BOOLEAN }

\* compile for an empty pattern (lines 369-427 skipped): rg.re is nil.
NilMatchers ==
    { [re |-> NilRe, ignoreCase |-> ic, literalSubstring |-> << >>] : ic \in BOOLEAN }

\* rg.Find on every file of the pool, for every matcher: Find is a function of
\* the file's bytes and the matcher alone.
PoolFind ==
    [d \in PoolData \cup { bytesToLowerASCII(e) : e \in PoolData },
     g \in PoolMatchers \cup NilMatchers |-> Find(d, g)]

\* zf.MaxLen: the length of the longest file of the archive.
MaxLen == IF Len(zf) = 0 THEN 0 ELSE MaxOf({ Len(zf[i].data) : i \in 1 .. Len(zf) })

\* The caller's readerGrep: the object 0, with its regexp, its path matcher and
\* its literal.
CallerRg == [obj |-> 0, re |-> 0, matchPath |-> 0, literalSubstring |-> 0]

\* Copy that hands out the receiver itself.
CopySame(g, w) == g

\* readerGrep.Copy (lines 431-442), called for worker w: a new readerGrep with
\* a copy of the regexp and of the path matcher, the same literalSubstring, and
\* no transformBuf.
Copy(g, w) ==
    [obj |-> w, re |-> w, matchPath |-> w, literalSubstring |-> g.literalSubstring]

\* sync.Mutex.Lock that never waits.
MayLockAlways(holder) == TRUE

\* sync.Mutex.Lock returns once no one holds the mutex.
MayLock(holder) == holder = 0

\* A string that is a view of the bytes lo..hi of a buffer.
GoStringAlias(region, obj, lo, hi, bytes) ==
    [region |-> region, obj |-> obj, lo |-> lo, hi |-> hi, bytes |-> << >>]

\* string(buf[lo:hi]) (lines 556, 576): the conversion copies the bytes.
GoString(region, obj, lo, hi, bytes) ==
    [region |-> "own", obj |-> 0, lo |-> lo, hi |-> hi, bytes |-> bytes]

\* What a read of unmapped memory gives.
Unmapped == << -1 >>

\* The bytes a string reads as, for the given archive, scratch buffers and
\* state of the archive.
Deref(h, archive, scratch, isClosed) ==
    IF h.region = "own" THEN h.bytes
    ELSE IF h.region = "archive"
    THEN IF isClosed THEN Unmapped ELSE Slice(archive[h.obj].data, h.lo, h.hi)
    ELSE Slice(scratch[h.obj], h.lo, h.hi)

\* Lines 460-477 lower-casing the file where it lies.
FoldWritesInPlace(fileBuf, scratch, maxLen) ==
    [fileBuf |-> bytesToLowerASCII(fileBuf),
     transformBuf |-> IF scratch = << >> THEN [i \in 1 .. maxLen |-> 0] ELSE scratch]

\* Lines 460-477 when a scratch buffer that exists is matched on as it is.
FoldWritesOnce(fileBuf, scratch, maxLen) ==
    [fileBuf |-> fileBuf,
     transformBuf |-> IF scratch = << >>
                      THEN [i \in 1 .. maxLen |->
                               IF i <= Len(fileBuf) THEN bytesToLowerASCII(fileBuf)[i] ELSE 0]
                      ELSE scratch]

\* Lines 460-477 with ignoreCase: transformBuf is made when it is nil, and the
\* lower-cased bytes go to its front; fileBuf is only read.
FoldWrites(fileBuf, scratch, maxLen) ==
    LET buf == IF scratch = << >> THEN [i \in 1 .. maxLen |-> 0] ELSE scratch
    IN  [fileBuf |-> fileBuf,
         transformBuf |-> [i \in 1 .. Len(buf) |->
                              IF i <= Len(fileBuf) THEN bytesToLowerASCII(fileBuf)[i] ELSE buf[i]]]

\* Lines 467-477 by the readerGrep o on file i: the file's bytes and the
\* scratch buffer after them.
FoldEffect(o, i) ==
    IF rg.ignoreCase
    THEN FoldWrites(zf[i].data, transformBuf[o], MaxLen)
    ELSE [fileBuf |-> zf[i].data, transformBuf |-> transformBuf[o]]

\* FindZip (lines 596-603) by the readerGrep o on file i, for what Find
\* returned (r): each preview is the string made of fileMatchBuf[lineStart:lineEnd],
\* and fileMatchBuf is transformBuf with ignoreCase and the file's bytes without.
PoolFileMatch(o, i, r) ==
    LET region == IF rg.ignoreCase THEN "transformBuf" ELSE "archive"
        robj == IF rg.ignoreCase THEN o ELSE i
    IN  [Path |-> i,
         LineMatches |-> [k \in 1 .. Len(r.matches) |->
             [r.matches[k] EXCEPT
                 !.Preview = GoString(region, robj, r.span[k][1], r.span[k][2], @)]],
         LimitHit |-> r.limitHit]

InitPoolWith(matchers) ==
    /\ p = NoPattern
    /\ zf \in Archives(PoolFiles)
    /\ rg \in matchers
    /\ fileMatchLimit \in {0, 1}
    /\ patternMatchesContent = TRUE
    /\ patternMatchesPaths = FALSE
    /\ pc = "start"
    /\ ctx = "none"
    /\ files = [i \in 1 .. Len(zf) |-> i]
    /\ matches = << >>
    /\ limitHit = FALSE
    /\ wgErr = nil
    /\ wgErrOnce = FALSE
    /\ filesSkipped = 0
    /\ filesSearched = 0
    /\ err = nil
    /\ wpc = [w \in Workers |-> "idle"]
    /\ wfile = [w \in Workers |-> 0]
    /\ wfm = [w \in Workers |-> NoFileMatch]
    /\ scans = [i \in 1 .. Len(zf) |-> 0]
    /\ late = [w \in Workers |-> 0]
    /\ transformBuf \in { [o \in 0 .. numWorkers |-> IF o = 0 THEN b ELSE << >>] :
                            b \in { << >>, [i \in 1 .. MaxLen |-> 120] } }
    /\ wrg = [w \in Workers |-> NoClone]
    /\ filesmu = 0
    /\ matchesmu = 0
    /\ closed = FALSE
    /\ NoStream
    /\ NoUi

InitPool == InitPoolWith(PoolMatchers)

\* Lines 621-734: the parameters are adjusted and each worker is started on
\* rg.Copy(), which the starting goroutine evaluates.
StartPool ==
    /\ pc = "start"
    /\ patternMatchesContent' = DefaultContent(patternMatchesContent, patternMatchesPaths)
    /\ fileMatchLimit' = ClampLimit(fileMatchLimit)
    /\ wrg' = [w \in Workers |-> Copy(CallerRg, w)]
    /\ transformBuf' = [o \in 0 .. numWorkers |->
                           IF o # 0 /\ \E w \in Workers : Copy(CallerRg, w).obj = o
                           THEN << >> ELSE transformBuf[o]]
    /\ wpc' = [w \in Workers |-> "poll"]
    /\ pc' = "running"
    /\ UNCHANGED << p, zf, rg, patternMatchesPaths, ctx, files, matches, limitHit, wgErr,
                    wgErrOnce, filesSkipped, filesSearched, err, wfile, wfm, scans, late,
                    filesmu, matchesmu, closed, stream, ui >>

\* Line 688: filesmu.Lock()
LockFiles(w) ==
    /\ pc = "running"
    /\ wpc[w] = "pop"
    /\ MayLock(filesmu)
    /\ filesmu' = w
    /\ wpc' = [wpc EXCEPT ![w] = "head"]
    /\ UNCHANGED << p, zf, rg, pc, fileMatchLimit, patternMatchesContent, patternMatchesPaths,
                    ctx, files, matches, limitHit, wgErr, wgErrOnce, filesSkipped,
                    filesSearched, err, wfile, wfm, scans, late, transformBuf, wrg,
                    matchesmu, closed, stream, ui >>

\* Lines 689-693: an empty queue ends the worker, else f := &files[0].
ReadHead(w) ==
    /\ pc = "running"
    /\ wpc[w] = "head"
    /\ IF Len(files) = 0
       THEN /\ filesmu' = 0
            /\ wpc' = [wpc EXCEPT ![w] = "exited"]
            /\ UNCHANGED << wfile, late >>
       ELSE /\ wfile' = [wfile EXCEPT ![w] = Head(files)]
            /\ wpc' = [wpc EXCEPT ![w] = "shorten"]
            /\ late' = [late EXCEPT ![w] = IF ctx # "none" THEN @ + 1 ELSE @]
            /\ UNCHANGED filesmu
    /\ UNCHANGED << p, zf, rg, pc, fileMatchLimit, patternMatchesContent, patternMatchesPaths,
                    ctx, files, matches, limitHit, wgErr, wgErrOnce, filesSkipped,
                    filesSearched, err, wfm, scans, transformBuf, wrg, matchesmu, closed,
                    stream, ui >>

\* Lines 694-695: files = files[1:]; filesmu.Unlock(). Slicing an empty queue
\* panics.
Shorten(w) ==
    /\ pc = "running"
    /\ wpc[w] = "shorten"
    /\ IF Len(files) = 0
       THEN pc' = "panicked" /\ UNCHANGED << files, filesmu, wpc >>
       ELSE /\ files' = Tail(files)
            /\ filesmu' = 0
            /\ wpc' = [wpc EXCEPT ![w] = "process"]
            /\ UNCHANGED pc
    /\ UNCHANGED << p, zf, rg, fileMatchLimit, patternMatchesContent, patternMatchesPaths,
                    ctx, matches, limitHit, wgErr, wgErrOnce, filesSkipped, filesSearched,
                    err, wfile, wfm, scans, late, transformBuf, wrg, matchesmu, closed,
                    stream, ui >>

\* Lines 697-721: the path check, the two counters, and FindZip on the worker's
\* own readerGrep. Find returns a nil error on every path, so line 707 is never
\* taken; patternMatchesPaths is false, so neither is line 715.
Scan(w) ==
    /\ pc = "running"
    /\ wpc[w] = "process"
    /\ \E r \in { PoolFind[zf[wfile[w]].data, rg] } :
       LET i == wfile[w]
           o == wrg[w].obj
           fm == PoolFileMatch(o, i, r)
           eff == FoldEffect(o, i)
           rejected == ~zf[i].matchPath
       IN  /\ filesSkipped' = Tally(rejected, filesSkipped, filesSearched)[1]
           /\ filesSearched' = Tally(rejected, filesSkipped, filesSearched)[2]
           /\ IF rejected
              THEN /\ wpc' = [wpc EXCEPT ![w] = "poll"]
                   /\ wfile' = [wfile EXCEPT ![w] = 0]
                   /\ UNCHANGED << pc, zf, transformBuf, wfm, scans >>
              ELSE /\ scans' = [scans EXCEPT ![i] = @ + 1]
                   /\ zf' = [zf EXCEPT ![i].data = eff.fileBuf]
                   /\ transformBuf' = [transformBuf EXCEPT ![o] = eff.transformBuf]
                   /\ wfm' = [wfm EXCEPT ![w] = [fm |-> fm, err |-> r.err, panic |-> r.panic]]
                   /\ IF r.panic
                      THEN /\ pc' = "panicked"
                           /\ UNCHANGED << wpc, wfile >>
                      ELSE IF Len(r.matches) > 0
                      THEN /\ wpc' = [wpc EXCEPT ![w] = "lockm"]
                           /\ UNCHANGED << pc, wfile >>
                      ELSE /\ wpc' = [wpc EXCEPT ![w] = "poll"]
                           /\ wfile' = [wfile EXCEPT ![w] = 0]
                           /\ UNCHANGED pc
    /\ UNCHANGED << p, rg, fileMatchLimit, patternMatchesContent, patternMatchesPaths, ctx,
                    files, matches, limitHit, wgErr, wgErrOnce, err, late, wrg, filesmu,
                    matchesmu, closed, stream, ui >>

\* Line 723: matchesmu.Lock()
LockMatches(w) ==
    /\ pc = "running"
    /\ wpc[w] = "lockm"
    /\ MayLock(matchesmu)
    /\ matchesmu' = w
    /\ wpc' = [wpc EXCEPT ![w] = "append"]
    /\ UNCHANGED << p, zf, rg, pc, fileMatchLimit, patternMatchesContent, patternMatchesPaths,
                    ctx, files, matches, limitHit, wgErr, wgErrOnce, filesSkipped,
                    filesSearched, err, wfile, wfm, scans, late, transformBuf, wrg,
                    filesmu, closed, stream, ui >>

\* Lines 724-730: the append or the limit, and matchesmu.Unlock().
PoolAppend(w) ==
    /\ pc = "running"
    /\ wpc[w] = "append"
    /\ IF BelowLimit(Len(matches), fileMatchLimit)
       THEN /\ matches' = Append(matches, wfm[w].fm)
            /\ UNCHANGED << limitHit, ctx >>
       ELSE /\ limitHit' = TRUE
            /\ ctx' = Cancel(ctx, "limit")
            /\ UNCHANGED matches
    /\ matchesmu' = 0
    /\ wpc' = [wpc EXCEPT ![w] = "poll"]
    /\ wfile' = [wfile EXCEPT ![w] = 0]
    /\ UNCHANGED << p, zf, rg, pc, fileMatchLimit, patternMatchesContent, patternMatchesPaths,
                    files, wgErr, wgErrOnce, filesSkipped, filesSearched, err, wfm, scans,
                    late, transformBuf, wrg, filesmu, closed, stream, ui >>

\* The caller closes the archive once the search has returned (lines 551-552:
\* Close occurs before Preview has been serialized).
CloseArchive ==
    /\ pc = "returned"
    /\ ~closed
    /\ closed' = TRUE
    /\ UNCHANGED << p, zf, rg, pc, fileMatchLimit, patternMatchesContent, patternMatchesPaths,
                    ctx, files, matches, limitHit, wgErr, wgErrOnce, filesSkipped,
                    filesSearched, err, wpc, wfile, wfm, scans, late, transformBuf, wrg,
                    filesmu, matchesmu, stream, ui >>

NextPool ==
    \/ StartPool
    \/ \E w \in Workers : Poll(w)
    \/ \E w \in Workers : LockFiles(w)
    \/ \E w \in Workers : ReadHead(w)
    \/ \E w \in Workers : Shorten(w)
    \/ \E w \in Workers : Scan(w)
    \/ \E w \in Workers : LockMatches(w)
    \/ \E w \in Workers : PoolAppend(w)
    \/ Return
    \/ CloseArchive

SpecPool == InitPool /\ [][NextPool]_vars

\* ------------------------------------------------ properties of the pool

\* The previews of the file matches collected so far.
Previews(ms) ==
    { << k, j >> : k \in 1 .. Len(ms), j \in 1 .. MaxOf({0} \cup { Len(ms[i].LineMatches) : i \in 1 .. Len(ms) }) }

PreviewAt(ms, kj) == ms[kj[1]].LineMatches[kj[2]].Preview

HasPreview(ms, kj) == kj[1] <= Len(ms) /\ kj[2] <= Len(ms[kj[1]].LineMatches)

\* C21: the preview of every collected LineMatch reads as the bytes
\* lineStart..lineEnd of the buffer that was matched on, taken when the file
\* was scanned, and no later step changes what it reads as: not the closing
\* of the archive, and not a further scan by the worker that produced it.
C21_PreviewIsOwnedCopy ==
    /\ [](\A kj \in Previews(matches) : HasPreview(matches, kj) =>
            LET h == PreviewAt(matches, kj)
            IN  Deref(h, zf, transformBuf, closed)
                    = Slice(FileMatchBuf(zf[matches[kj[1]].Path].data, rg), h.lo, h.hi))
    /\ [][\A kj \in Previews(matches) : HasPreview(matches, kj) =>
            /\ HasPreview(matches', kj)
            /\ Deref(PreviewAt(matches', kj), zf', transformBuf', closed')
                   = Deref(PreviewAt(matches, kj), zf, transformBuf, closed)]_vars

\* The archive is closed after a case-insensitive search in which one worker
\* scanned every file, and its scratch buffer no longer holds the bytes of the
\* first preview.
C21_Witness ==
    /\ closed
    /\ rg.ignoreCase
    /\ Len(matches) >= 1
    /\ \E w \in Workers :
          /\ \A v \in Workers \ {w} : transformBuf[v] = << >>
          /\ transformBuf[w] # << >>
          /\ LET h == matches[1].LineMatches[1].Preview
             IN  Slice(transformBuf[w], h.lo, h.hi) # h.bytes

\* C28: once the workers are started each runs on a readerGrep of its own,
\* with a regexp and a path matcher of its own and the caller's literal; a
\* scratch buffer is written only by the one worker whose clone holds it,
\* while that worker scans; the clones start without a scratch buffer; and the
\* caller's readerGrep, its scratch buffer included, is never written.
C28_PerWorkerClones ==
    /\ [](pc \in {"running", "returned"} =>
            /\ \A w \in Workers :
                  /\ wrg[w].obj # CallerRg.obj
                  /\ wrg[w].re # CallerRg.re
                  /\ wrg[w].matchPath # CallerRg.matchPath
                  /\ wrg[w].literalSubstring = CallerRg.literalSubstring
            /\ \A v, w \in Workers : v # w =>
                  /\ wrg[v].obj # wrg[w].obj
                  /\ wrg[v].re # wrg[w].re
                  /\ wrg[v].matchPath # wrg[w].matchPath)
    /\ [][pc = "start" /\ pc' = "running" =>
            \A w \in Workers : transformBuf'[wrg'[w].obj] = << >>]_vars
    /\ [][\A o \in 0 .. numWorkers : transformBuf'[o] # transformBuf[o] =>
            /\ o # CallerRg.obj
            /\ \E w \in Workers :
                  /\ wrg[w].obj = o
                  /\ wpc[w] = "process"
                  /\ wpc'[w] # "process"
                  /\ \A v \in Workers \ {w} : wrg[v].obj # o]_vars
    /\ [][transformBuf'[CallerRg.obj] = transformBuf[CallerRg.obj] /\ rg' = rg]_vars

\* Two workers have each filled a scratch buffer of their own in a
\* case-insensitive search, and the caller's buffer still holds what it held.
C28_Witness ==
    /\ pc = "returned"
    /\ rg.ignoreCase
    /\ transformBuf[CallerRg.obj] # << >>
    /\ \A w \in Workers : w <= 2 => transformBuf[wrg[w].obj] # << >>
    /\ transformBuf[wrg[1].obj] # transformBuf[wrg[2].obj]

\* C29: the queue is read and shortened only by the worker that holds filesmu,
\* so no two workers hold the same file, no file is scanned twice, every file
\* taken from the queue is counted once, and no path is reported twice.
C29_EachFileOnce ==
    /\ [](\A v, w \in Workers : (v # w /\ wfile[v] # 0) => wfile[v] # wfile[w])
    /\ [](\A i \in 1 .. Len(zf) : scans[i] <= 1)
    /\ [](\A j, k \in 1 .. Len(matches) : j # k => matches[j].Path # matches[k].Path)
    /\ [](pc \in {"running", "returned"} =>
            filesSkipped + filesSearched + Len(files)
                + Cardinality({ w \in Workers : wpc[w] = "process" }) = Len(zf))
    /\ [][\A w \in Workers : (wfile'[w] # wfile[w] /\ wfile'[w] # 0) =>
            (filesmu = w /\ wfile'[w] = Head(files))]_vars
    /\ [][files' # files =>
            \E w \in Workers : filesmu = w /\ files' = Tail(files) /\ wfile[w] = Head(files)]_vars

\* One worker holds filesmu with the second file in hand while the other,
\* having scanned the first, waits for the mutex.
C29_Witness ==
    /\ Len(zf) = 2
    /\ filesmu = 1
    /\ wpc[1] = "shorten"
    /\ wfile[1] = 2
    /\ wpc[2] = "pop"
    /\ scans[1] = 1

\* C30: no step changes the archive, neither its list of files nor a byte of a
\* file; a case-insensitive scan puts the lower-cased bytes of the file at the
\* front of the scanning worker's scratch buffer and writes nothing else, and
\* a case-sensitive scan writes no buffer at all.
C30_ArchiveUnchanged ==
    /\ [][zf' = zf]_vars
    /\ [][\A i \in 1 .. Len(zf) : scans'[i] # scans[i] =>
            \E w \in Workers :
               /\ wfile[w] = i
               /\ wpc[w] = "process"
               /\ \A o \in 0 .. numWorkers : o # wrg[w].obj => transformBuf'[o] = transformBuf[o]
               /\ IF rg.ignoreCase
                  THEN /\ Len(transformBuf'[wrg[w].obj]) = MaxLen
                       /\ Slice(transformBuf'[wrg[w].obj], 0, Len(zf[i].data))
                              = bytesToLowerASCII(zf[i].data)
                       /\ transformBuf[wrg[w].obj] # << >> =>
                              Slice(transformBuf'[wrg[w].obj], Len(zf[i].data), MaxLen)
                                  = Slice(transformBuf[wrg[w].obj], Len(zf[i].data), MaxLen)
                  ELSE transformBuf' = transformBuf]_vars

\* A case-insensitive search has returned: the file "A\n" was scanned, a
\* worker's scratch buffer holds "a\n", and the file still reads "A\n".
C30_Witness ==
    /\ pc = "returned"
    /\ rg.ignoreCase
    /\ \E i \in 1 .. Len(zf), w \in Workers :
          /\ scans[i] = 1
          /\ zf[i].data = << 65, NL >>
          /\ Slice(transformBuf[wrg[w].obj], 0, 2) = << 97, NL >>

\* ------------------------------------------------ the pool under fairness
\* The pool started on any matcher compile can build, the one of an empty
\* pattern included, with the context ended from outside at any moment, and
\* with every goroutine scheduled again and again.

InitPoolFair == InitPoolWith(PoolMatchers \cup NilMatchers)

\* The next step of the goroutine of worker w.
WorkerStep(w) ==
    \/ Poll(w)
    \/ LockFiles(w)
    \/ ReadHead(w)
    \/ Shorten(w)
    \/ Scan(w)
    \/ LockMatches(w)
    \/ PoolAppend(w)

NextPoolFair ==
    \/ NextPool
    \/ DeadlineFires
    \/ OuterCancel

SpecPoolFair ==
    /\ InitPoolFair
    /\ [][NextPoolFair]_vars
    /\ WF_vars(StartPool)
    /\ \A w \in Workers : WF_vars(WorkerStep(w))
    /\ WF_vars(Return)

\* No worker holds both mutexes; a worker holds filesmu exactly from line 688
\* to the Unlock of line 690 or 695, and matchesmu exactly from line 723 to
\* line 730, so that a worker that has exited holds none.
LockDiscipline ==
    \A w \in Workers :
        /\ ~(filesmu = w /\ matchesmu = w)
        /\ filesmu = w <=> wpc[w] \in {"head", "shorten"}
        /\ matchesmu = w <=> wpc[w] = "append"

\* C31: under fair scheduling every worker exits and concurrentFind returns,
\* no worker ever holds filesmu and matchesmu together, and every mutex taken
\* is released.
C31_AlwaysReturns ==
    /\ <>(pc = "returned" /\ \A w \in Workers : wpc[w] = "exited")
    /\ []LockDiscipline

\* The same for a matcher that has a regexp.
ReturnsWithRegexp ==
    rg.re # NilRe => C31_AlwaysReturns

\* The files of the archive that pass the path matcher and have a line match.
Matching ==
    { i \in 1 .. Len(zf) : zf[i].matchPath /\ Len(PoolFind[zf[i].data, rg].matches) > 0 }

\* The FileMatch of file i: its path and what Find returns for its bytes.
FileMatchOf(i) == PoolFileMatch(CallerRg.obj, i, PoolFind[zf[i].data, rg])

\* C34: when the pool returns from a run that nothing cut short (no limit hit,
\* no deadline, no cancellation, no error), the result list holds, in some
\* order, exactly one FileMatch for every matching file, with the line matches
\* Find gives for that file: the same set under every interleaving.
C34_SameSetUnderEveryInterleaving ==
    (/\ pc = "returned"
     /\ ctx = "deferred"
     /\ ~limitHit
     /\ err = nil)
    => /\ { matches[k] : k \in 1 .. Len(matches) } = { FileMatchOf(i) : i \in Matching }
       /\ Len(matches) = Cardinality(Matching)

\* A run that nothing cut short returned the two files of the archive in the
\* other order than the archive holds them.
C34_Witness ==
    /\ pc = "returned"
    /\ ctx = "deferred"
    /\ ~limitHit
    /\ err = nil
    /\ Len(matches) = 2
    /\ matches[1].Path = 2
    /\ matches[2].Path = 1

\* ============================================== one matcher, many files
\* rg.Find called again and again on the files of one archive, by the one
\* readerGrep rg (the object 0), whose scratch buffer is kept between the
\* calls. wfile[1] is the file of the last call and scans[i] the number of
\* calls on file i.

\* The most calls made on one file.
MaxCalls == 2

\* Lines 485-588: the scan of fileMatchBuf, which is all Find reads after
\* line 477.
FindIn(fileMatchBuf, g) == Find(fileMatchBuf, [g EXCEPT !.ignoreCase = FALSE])

InitReuse ==
    /\ InitPool
    /\ fileMatchLimit = 0

\* matches, limitHit, err := rg.Find(zf, &zf.Files[i])
FindAgain(i) ==
    /\ pc \in {"start", "returned"}
    /\ scans[i] < MaxCalls
    /\ \E eff \in { FoldEffect(CallerRg.obj, i) } :
       \E r \in { FindIn(IF rg.ignoreCase
                         THEN Slice(eff.transformBuf, 0, Len(eff.fileBuf))
                         ELSE eff.fileBuf, rg) } :
          /\ zf' = [zf EXCEPT ![i].data = eff.fileBuf]
          /\ transformBuf' = [transformBuf EXCEPT ![CallerRg.obj] = eff.transformBuf]
          /\ matches' = r.matches
          /\ limitHit' = r.limitHit
          /\ err' = r.err
          /\ pc' = IF r.panic THEN "panicked" ELSE "returned"
    /\ wfile' = [wfile EXCEPT ![1] = i]
    /\ scans' = [scans EXCEPT ![i] = @ + 1]
    /\ UNCHANGED << p, rg, fileMatchLimit, patternMatchesContent, patternMatchesPaths, ctx,
                    files, wgErr, wgErrOnce, filesSkipped, filesSearched, wpc, wfm, late,
                    wrg, filesmu, matchesmu, closed, stream, ui >>

NextReuse == \E i \in 1 .. Len(zf) : FindAgain(i)

SpecReuse == InitReuse /\ [][NextReuse]_vars

\* C35: whatever files the readerGrep scanned before, longer or shorter, Find
\* returns for a file the line matches, limitHit and error that a readerGrep
\* without a scratch buffer returns for it.
C35_FindForgetsEarlierFiles ==
    /\ pc # "panicked"
    /\ pc = "returned" =>
          /\ matches = Find(zf[wfile[1]].data, rg).matches
          /\ limitHit = Find(zf[wfile[1]].data, rg).limitHit
          /\ err = Find(zf[wfile[1]].data, rg).err

\* A case-insensitive matcher has scanned "a\nA\n" and then the shorter "A\n",
\* whose bytes lie in front of what is left of the longer file.
C35_Witness ==
    /\ pc = "returned"
    /\ rg.ignoreCase
    /\ Len(zf) = 2
    /\ zf[wfile[1]].data = << 65, NL >>
    /\ transformBuf[CallerRg.obj] = << 97, NL, 97, NL >>
    /\ Len(matches) = 1

\* ------------------------------------------------------------ the Tooltip
\*
\* The global Tooltip of SiteAdminInviteUserPage.tsx: a mounted component
\* whose handleEvent listens on the document for focusin, mouseover, touchend
\* and click.  The page is body > div > button; the div subtree can be taken
\* out of the document and put back, and both elements can carry a
\* data-tooltip attribute.  Each setState is applied at once, in the order of
\* the calls.

\* The number of events the document delivers.
MaxEvents == 3

Elements == { "body", "div", "button" }

Subjects == { "div", "button" }

\* getAttribute('data-tooltip'): null when the attribute is absent.
Tooltips == { null, "", "tip" }

EventTypes == { "focusin", "mouseover", "touchend", "click" }

\* A click carries a page position; the position of the other events is
\* never read.
Events ==
    [type : { "click" }, target : Elements, pageX : { 0, 1 }, pageY : { 0, 1 }]
        \cup [type : EventTypes \ { "click" }, target : Elements, pageX : { 1 },
              pageY : { 1 }]

parentElement(e) ==
    CASE e = "button" -> "div"
      [] e = "div" -> IF document.attached THEN "body" ELSE null
      [] OTHER -> null

tagName(e) ==
    CASE e = "button" -> "BUTTON"
      [] e = "div" -> "DIV"
      [] OTHER -> "BODY"

\* document.body.contains(e)
BodyContains(e) == e = "body" \/ document.attached

hasAttribute(e) == document.tooltip[e] # null

\* Find the nearest ancestor element to e that contains a tooltip.
RECURSIVE getSubject(_)
getSubject(e) ==
    IF e = null THEN undefined
    ELSE IF e = "body" THEN undefined
    ELSE IF hasAttribute(e) THEN (IF ~BodyContains(e) THEN undefined ELSE e)
    ELSE getSubject(parentElement(e))

\* getAttribute(...) || undefined: the empty string is no content.
getContent(subject) ==
    IF ~BodyContains(subject) THEN undefined
    ELSE IF document.tooltip[subject] = "" THEN undefined
    ELSE document.tooltip[subject]

\* The click a browser makes up when the user presses enter in a form.
SubmitByEnter(ev) ==
    /\ ev.type = "click"
    /\ tagName(ev.target) = "BUTTON"
    /\ document.buttonType = "submit"
    /\ ev.pageX = 0
    /\ ev.pageY = 0

NextSubjectSeqAlways(prevState, subject) == prevState.subjectSeq + 1

NextSubjectSeq(prevState, subject) ==
    IF prevState.subject = subject THEN prevState.subjectSeq
    ELSE prevState.subjectSeq + 1

InitTooltip ==
    /\ p = NoPattern
    /\ zf = << >>
    /\ rg = NotCompiled
    /\ pc = "start"
    /\ matches = << >>
    /\ limitHit = FALSE
    /\ err = nil
    /\ Idle
    /\ NoStream
    /\ state = [subject |-> undefined, subjectSeq |-> 0, lastEventTarget |-> undefined,
                content |-> undefined]
    /\ document \in [tooltip : [Subjects -> Tooltips], attached : { TRUE },
                     buttonType : { "submit", "button" }]
    /\ event = [n |-> 0]

\* Everything that is not the Tooltip's.
search == << p, zf, rg, pc, matches, limitHit, err, fileMatchLimit, patternMatchesContent,
             patternMatchesPaths, ctx, files, wgErr, wgErrOnce, filesSkipped,
             filesSearched, wpc, wfile, wfm, scans, late, heap, stream >>

handleEvent(ev) ==
    /\ event.n < MaxEvents
    /\ BodyContains(ev.target)
    /\ event' = [n |-> event.n + 1, type |-> ev.type, target |-> ev.target,
                 pageX |-> ev.pageX, pageY |-> ev.pageY]
    /\ IF SubmitByEnter(ev)
       THEN state' = [state EXCEPT !.lastEventTarget = undefined, !.subject = undefined,
                                   !.content = undefined]
       ELSE LET subject == getSubject(ev.target)
            IN  state' = [lastEventTarget |-> ev.target,
                          subject |-> subject,
                          subjectSeq |-> NextSubjectSeq(state, subject),
                          content |-> IF subject # undefined THEN getContent(subject)
                                      ELSE undefined]
    /\ UNCHANGED << document, search >>

forceUpdate ==
    /\ LET subject == IF state.lastEventTarget = undefined THEN undefined
                      ELSE getSubject(state.lastEventTarget)
       IN  state' = [state EXCEPT !.subject = subject,
                                  !.content = IF subject # undefined
                                              THEN getContent(subject)
                                              ELSE undefined]
    /\ UNCHANGED << document, event, search >>

\* A null or empty tooltip removes the attribute.
setElementTooltip(element, tooltip) ==
    /\ document' = [document EXCEPT
                        !.tooltip[element] = IF tooltip \notin { null, "" } THEN tooltip
                                             ELSE null]
    /\ UNCHANGED << state, event, search >>

\* The page removes the div and its button from the document, or inserts them
\* again.
Reattach ==
    /\ document' = [document EXCEPT !.attached = ~document.attached]
    /\ UNCHANGED << state, event, search >>

NextTooltip ==
    \/ \E ev \in Events : handleEvent(ev)
    \/ forceUpdate
    \/ \E element \in Subjects, tooltip \in Tooltips : setElementTooltip(element, tooltip)
    \/ Reattach

SpecTooltip == InitTooltip /\ [][NextTooltip]_vars

\* A step in which handleEvent ran.
Handled == event'.n # event.n

\* The event of the step is a click on a submit button at page position (0,0).
ClickOnSubmitAtOrigin ==
    /\ event'.type = "click"
    /\ event'.target = "button"
    /\ document.buttonType = "submit"
    /\ event'.pageX = 0
    /\ event'.pageY = 0

\* C39: over any sequence of handled events subjectSeq never decreases; an
\* event other than a click on a submit button at page position (0,0) makes the
\* nearest attached ancestor with a data-tooltip attribute the subject and
\* raises subjectSeq by exactly 1 when that subject differs from the subject of
\* the previous state, and leaves it otherwise; the click on a submit button at
\* (0,0) clears lastEventTarget, subject and content and leaves subjectSeq; and
\* content is defined only when subject is.
C39_SubjectSeqCountsSubjectChanges ==
    /\ [][state'.subjectSeq >= state.subjectSeq]_vars
    /\ [][Handled /\ ~ClickOnSubmitAtOrigin =>
            /\ state'.subject = getSubject(event'.target)
            /\ state'.subjectSeq = IF state'.subject # state.subject
                                   THEN state.subjectSeq + 1
                                   ELSE state.subjectSeq]_vars
    /\ [][Handled /\ ClickOnSubmitAtOrigin =>
            /\ state'.lastEventTarget = undefined
            /\ state'.subject = undefined
            /\ state'.content = undefined
            /\ state'.subjectSeq = state.subjectSeq]_vars
    /\ [](state.content # undefined => state.subject # undefined)

\* Two changes of subject, then enter in the form: the state is cleared and the
\* sequence number kept.
C39_Witness ==
    /\ event.n = 3
    /\ event.type = "click"
    /\ event.target = "button"
    /\ event.pageX = 0
    /\ event.pageY = 0
    /\ document.buttonType = "submit"
    /\ state.subjectSeq = 2
    /\ state.subject = undefined
    /\ state.lastEventTarget = undefined
    /\ state.content = undefined

====
